---- MODULE Spec2Model ----
(***************************************************************************)
(* docker-layer-optimizer: the Dockerfile parsers (TypeScript and          *)
(* JavaScript variants) and the TypeScript cache optimizer.                *)
(*                                                                         *)
(* Text is a sequence of symbols.  A symbol is a single character that the *)
(* code inspects (space, tab, newline, the continuation marker, the        *)
(* comment mark, the tag separator) or an indivisible word; a JavaScript   *)
(* string is the concatenation of its symbols.                             *)
(***************************************************************************)
EXTENDS Integers, Sequences, FiniteSets, TLC

(***************************************************************************)
(* Bounds of the model.                                                    *)
(***************************************************************************)
MaxLines == 3

MaxRuleLines == 3

(***************************************************************************)
(* JavaScript values and string primitives.                                *)
(***************************************************************************)
\* the value `undefined` (a property never set, an index out of range)
Undefined == <<"undefined">>

\* the empty string
Empty == <<>>

\* whitespace as matched by trim() and by the class \s
IsWs(c) == c \in {" ", "\t", "\n"}

\* truthiness of a string-or-undefined value (a || b, !a)
Falsy(s) == s = Undefined \/ s = Empty

\* a || b
OrElse(a, b) == IF Falsy(a) THEN b ELSE a

\* arr[k] for a 0-based index k: undefined when out of range
At(arr, k) == IF k >= 0 /\ k < Len(arr) THEN arr[k + 1] ELSE Undefined

\* String.prototype.toUpperCase, symbol by symbol
UpperTable ==
  ("from" :> "FROM") @@ ("as" :> "AS") @@ ("--as" :> "--AS") @@
  ("run" :> "RUN") @@ ("copy" :> "COPY") @@ ("node" :> "NODE") @@
  ("img" :> "IMG") @@ ("bld" :> "BLD") @@ ("a" :> "A") @@ ("b" :> "B") @@
  ("c" :> "C") @@ ("v" :> "V") @@ ("--p" :> "--P") @@
  ("apt-get" :> "APT-GET") @@ ("update" :> "UPDATE") @@
  ("install" :> "INSTALL") @@ ("npm" :> "NPM") @@ ("curl" :> "CURL") @@
  ("package*.json" :> "PACKAGE*.JSON") @@ ("src" :> "SRC") @@
  (".dockerignore" :> ".DOCKERIGNORE") @@ ("echo" :> "ECHO") @@
  ("$v" :> "$V") @@ ("k=" :> "K=") @@ ("-y" :> "-Y") @@
  ("${v}" :> "${V}") @@ ("yarn" :> "YARN") @@ ("ci" :> "CI") @@
  ("download" :> "DOWNLOAD") @@ ("clean" :> "CLEAN") @@ ("all" :> "ALL") @@
  ("rm" :> "RM") @@ ("-rf" :> "-RF") @@ ("yum" :> "YUM") @@ ("git" :> "GIT") @@
  ("/var/lib/apt/lists/*" :> "/VAR/LIB/APT/LISTS/*") @@
  ("package.json" :> "PACKAGE.JSON") @@ ("/app" :> "/APP") @@ ("./app" :> "./APP") @@
  ("https://example.com/x.tar.gz" :> "HTTPS://EXAMPLE.COM/X.TAR.GZ") @@
  ("make" :> "MAKE") @@ ("kb" :> "KB") @@ ("mb" :> "MB") @@ ("x" :> "X") @@
  ("y" :> "Y") @@ ("junk" :> "JUNK")

UpperSym(c) == IF c \in DOMAIN UpperTable THEN UpperTable[c] ELSE c

ToUpperCase(s) == [k \in 1..Len(s) |-> UpperSym(s[k])]

\* String.prototype.trim
RECURSIVE TrimStart(_)
TrimStart(s) ==
  IF s # <<>> /\ IsWs(Head(s)) THEN TrimStart(Tail(s)) ELSE s

RECURSIVE TrimEnd(_)
TrimEnd(s) ==
  IF s # <<>> /\ IsWs(s[Len(s)]) THEN TrimEnd(SubSeq(s, 1, Len(s) - 1)) ELSE s

Trim(s) == TrimEnd(TrimStart(s))

\* s.startsWith(p), s.endsWith(p), s.includes(p) for a symbol sequence p
StartsWith(s, p) == Len(s) >= Len(p) /\ SubSeq(s, 1, Len(p)) = p

EndsWith(s, p) == Len(s) >= Len(p) /\ SubSeq(s, Len(s) - Len(p) + 1, Len(s)) = p

Includes(s, p) ==
  \E k \in 0..(Len(s) - Len(p)) : SubSeq(s, k + 1, k + Len(p)) = p

\* s.startsWith('--'): the flag words of the alphabet
StartsWithDashes(s) == s # <<>> /\ Head(s) \in {"--p", "--as", "--AS", "--mount=type=cache", "--from=bld"}

\* s.slice(0, -1)
DropLast(s) == IF s = <<>> THEN s ELSE SubSeq(s, 1, Len(s) - 1)

\* s.split(sep) for a one-symbol separator
RECURSIVE SplitRec(_, _, _, _)
SplitRec(s, sep, cur, acc) ==
  IF s = <<>> THEN Append(acc, cur)
  ELSE IF Head(s) = sep THEN SplitRec(Tail(s), sep, <<>>, Append(acc, cur))
  ELSE SplitRec(Tail(s), sep, Append(cur, Head(s)), acc)

Split(s, sep) == SplitRec(s, sep, <<>>, <<>>)

\* s.split(/\s+/): a run of whitespace is one separator
RECURSIVE SplitWsRec(_, _, _)
SplitWsRec(s, cur, acc) ==
  IF s = <<>> THEN Append(acc, cur)
  ELSE IF IsWs(Head(s)) THEN SplitWsRec(TrimStart(s), <<>>, Append(acc, cur))
  ELSE SplitWsRec(Tail(s), Append(cur, Head(s)), acc)

SplitWs(s) == SplitWsRec(s, <<>>, <<>>)

\* arr.join(sep)
RECURSIVE Join(_, _)
Join(arr, sep) ==
  IF arr = <<>> THEN <<>>
  ELSE IF Len(arr) = 1 THEN arr[1]
  ELSE arr[1] \o sep \o Join(Tail(arr), sep)

\* arr.slice(k)
SliceFrom(arr, k) == SubSeq(arr, k + 1, Len(arr))


\* arr.indexOf(x): 0-based, -1 when absent
RECURSIVE IndexFrom(_, _, _)
IndexFrom(arr, x, k) ==
  IF k >= Len(arr) THEN -1
  ELSE IF arr[k + 1] = x THEN k
  ELSE IndexFrom(arr, x, k + 1)

IndexOf(arr, x) == IndexFrom(arr, x, 0)

\* s.slice(a, b) with JavaScript's treatment of negative and large indices
SliceIdx(s, x) == IF x < 0 THEN (IF Len(s) + x < 0 THEN 0 ELSE Len(s) + x)
                  ELSE (IF x > Len(s) THEN Len(s) ELSE x)

Slice(s, a, b) == SubSeq(s, SliceIdx(s, a) + 1, SliceIdx(s, b))

\* `${n}`
Digits == <<"0", "1", "2", "3", "4", "5", "6", "7", "8", "9">>

RECURSIVE NumStr(_)
NumStr(n) ==
  IF n < 10 THEN <<Digits[n + 1]>>
  ELSE NumStr(n \div 10) \o <<Digits[(n % 10) + 1]>>

\* Set.prototype.add on a set kept in insertion order
SetAdd(set, x) == IF \E k \in 1..Len(set) : set[k] = x THEN set ELSE Append(set, x)

(***************************************************************************)
(* TypeScript DockerfileParser (dockerfile-parser.ts).                     *)
(***************************************************************************)
\* the continuation marker and the comment mark
Marker == <<"\\">>

Hash == <<"#">>

\* a table that also accepts the word B
KnownDirectivesWide ==
  { <<"FROM">>, <<"RUN">>, <<"CMD">>, <<"LABEL">>, <<"MAINTAINER">>,
    <<"EXPOSE">>, <<"ENV">>, <<"ADD">>, <<"COPY">>, <<"ENTRYPOINT">>,
    <<"VOLUME">>, <<"USER">>, <<"WORKDIR">>, <<"ARG">>, <<"ONBUILD">>,
    <<"STOPSIGNAL">>, <<"HEALTHCHECK">>, <<"SHELL">>, <<"B">> }

\* private instructions: Set<string>
KnownDirectives ==
  { <<"FROM">>, <<"RUN">>, <<"CMD">>, <<"LABEL">>, <<"MAINTAINER">>,
    <<"EXPOSE">>, <<"ENV">>, <<"ADD">>, <<"COPY">>, <<"ENTRYPOINT">>,
    <<"VOLUME">>, <<"USER">>, <<"WORKDIR">>, <<"ARG">>, <<"ONBUILD">>,
    <<"STOPSIGNAL">>, <<"HEALTHCHECK">>, <<"SHELL">> }

\* the loop of parseLine over the arguments of a FROM
RECURSIVE FromScan(_, _, _, _)
FromScan(args, k, from, as) ==
  IF k >= Len(args) THEN [from |-> from, as |-> as]
  ELSE IF ToUpperCase(args[k + 1]) \in {<<"--AS">>, <<"AS">>}
       THEN FromScan(args, k + 1, from, At(args, k + 1))
  ELSE IF Falsy(from) /\ ~StartsWithDashes(args[k + 1])
       THEN FromScan(args, k + 1, args[k + 1], as)
  ELSE FromScan(args, k + 1, from, as)

\* parseLine: << >> for null, <<layer>> for a layer
ParseLine(line, lineNo) ==
  LET parts == SplitWs(line)
      instruction == ToUpperCase(parts[1])
      args == SliceFrom(parts, 1)
      fa == IF instruction = <<"FROM">>
            THEN FromScan(args, 0, Undefined, Undefined)
            ELSE [from |-> Undefined, as |-> Undefined]
  IN IF instruction \notin KnownDirectives THEN <<>>
     ELSE << [ type |-> instruction,
               instruction |-> parts[1],
               arguments |-> args,
               from |-> fa.from,
               as |-> fa.as,
               stageName |-> fa.as,
               lineNumber |-> lineNo,
               raw |-> line ] >>

\* the Stage opened by a FROM layer when n stages exist
NewStage(layer, n) ==
  [ name |-> OrElse(layer.as, <<"stage_">> \o NumStr(n)),
    from |-> OrElse(layer.from, At(layer.arguments, 0)),
    as |-> OrElse(layer.as, Empty),
    layers |-> <<>>,
    startLineNumber |-> layer.lineNumber ]

\* layer.arguments[0]?.split(':')[0] || layer.arguments[0]
BaseImageOf(layer) ==
  LET a0 == At(layer.arguments, 0)
  IN OrElse(IF a0 = Undefined THEN Undefined ELSE Split(a0, ":")[1], a0)

\* the flag set as soon as one stage exists
HasMultiStageAny(stgs) == Len(stgs) >= 1

\* hasMultiStage: stages.length > 1
HasMultiStage(stgs) == Len(stgs) > 1

\* a method is called on undefined while the logical line is parsed
\* (parts[0].toUpperCase(), args[i].toUpperCase(), args[i].startsWith)
ThrowsTypeError(line) ==
  LET parts == SplitWs(line)
  IN \/ At(parts, 0) = Undefined
     \/ /\ ToUpperCase(parts[1]) = <<"FROM">>
        /\ \E k \in 1..(Len(parts) - 1) : At(parts, k) = Undefined

\* a line that the scanner skips: blank or a comment
IsSkipped(trimmed) == Falsy(trimmed) \/ StartsWith(trimmed, Hash)


(***************************************************************************)
(* State.                                                                  *)
(***************************************************************************)
VARIABLES
  content,        \* the text handed to the parsers
  pc,             \* position of the TypeScript parse: start, scan, cont, done
  lines,          \* parse: const lines
  i,              \* parse: let i
  fullLine,       \* parse: let fullLine
  lineNumber,     \* parse: let lineNumber
  layers,         \* parse: const layers
  stages,         \* parse: const stages
  currentStage,   \* parse: let currentStage, as a 1-based index into stages (0 is null)
  baseImages,     \* parse: const baseImages
  tsResult,       \* the ParseResult returned by parse
  optPc,          \* whether CacheOptimizer.optimize has returned: none, done
  optimizations,  \* the list returned by CacheOptimizer.optimize
  jsParser,       \* the JavaScript DockerfileParser instance
  texts,          \* the texts that a caller of Analyzer.parse has at hand
  analyzer,       \* the Analyzer instance, with its parser and its LayerAnalyzer
  ret,            \* what the last call of a method of the Analyzer returned or threw
  cli,            \* the run of main of bin/cli.js: its inputs, output and exit status
  tsCli           \* the run of printTextOutput of the TypeScript CLI

vars == << content, pc, lines, i, fullLine, lineNumber, layers, stages,
           currentStage, baseImages, tsResult, optPc, optimizations, jsParser,
           texts, analyzer, ret, cli, tsCli >>

appVars == << texts, analyzer, ret, cli, tsCli >>

tsLocals == << lines, i, fullLine, lineNumber, layers, stages, currentStage, baseImages >>

\* the value of tsResult before parse has returned
NoResult == [ layers |-> <<>>, stages |-> <<>>, hasMultiStage |-> FALSE, baseImages |-> <<>> ]

\* the value of jsParser before the constructor has run
NoParser == [ constructed |-> FALSE, content |-> <<>>, lines |-> <<>>,
              stages |-> <<>>, instructions |-> <<>> ]

(***************************************************************************)
(* Input texts: the lines of a text are joined with newlines.              *)
(***************************************************************************)
ParserLines ==
  { <<>>,
    <<"#", " ", "c">>,
    <<"FROM">>,
    <<"FROM", " ", "node", ":", "18", " ", "AS", " ", "bld">>,
    <<"from", " ", "--p", " ", "img">>,
    <<"\t", "FROM", " ", "node">>,
    <<"RUN", " ", "a", " ", "\\">>,
    <<"b">>,
    <<"b", "\\">>,
    <<"\\">>,
    <<"ARG", " ", "v">> }

SeqsUpTo(S, n) == UNION { [1..k -> S] : k \in 1..n }

TextOf(ls) == Join(ls, <<"\n">>)

ParserTexts == { TextOf(ls) : ls \in SeqsUpTo(ParserLines, MaxLines) }

(***************************************************************************)
(* TypeScript DockerfileParser.parse, one action per step of its loops.    *)
(***************************************************************************)
\* parse is called: lines 40-46
ParseCall ==
  /\ pc = "start"
  /\ lines' = Split(content, "\n")
  /\ layers' = <<>>
  /\ stages' = <<>>
  /\ currentStage' = 0
  /\ baseImages' = <<>>
  /\ i' = 0
  /\ pc' = "scan"
  /\ UNCHANGED << appVars, content, fullLine, lineNumber, tsResult, optPc, optimizations, jsParser >>

\* outer loop, a comment or an empty line: lines 47-54
SkipLine ==
  /\ pc = "scan"
  /\ i < Len(lines)
  /\ IsSkipped(Trim(lines[i + 1]))
  /\ i' = i + 1
  /\ UNCHANGED << appVars, content, pc, lines, fullLine, lineNumber, layers, stages,
                  currentStage, baseImages, tsResult, optPc, optimizations, jsParser >>

\* a start of a logical line that numbers the lines from 0
StartLineZeroBased ==
  /\ pc = "scan"
  /\ i < Len(lines)
  /\ ~IsSkipped(Trim(lines[i + 1]))
  /\ fullLine' = Trim(lines[i + 1])
  /\ lineNumber' = i
  /\ pc' = "cont"
  /\ UNCHANGED << appVars, content, lines, i, layers, stages, currentStage, baseImages,
                  tsResult, optPc, optimizations, jsParser >>

\* outer loop, the first physical line of a logical line: lines 47-58
StartLine ==
  /\ pc = "scan"
  /\ i < Len(lines)
  /\ ~IsSkipped(Trim(lines[i + 1]))
  /\ fullLine' = Trim(lines[i + 1])
  /\ lineNumber' = i + 1
  /\ pc' = "cont"
  /\ UNCHANGED << appVars, content, lines, i, layers, stages, currentStage, baseImages,
                  tsResult, optPc, optimizations, jsParser >>

\* the text appended by one round of the continuation loop: lines 63-69
Appended(ls, k) ==
  IF k < Len(ls) /\ ~IsSkipped(Trim(ls[k + 1])) THEN Trim(ls[k + 1]) ELSE <<>>

\* the next line appended without the separating space
ContinuedNoSpace(full, ls, k) == DropLast(full) \o Appended(ls, k)

\* the pending logical line discarded when the input ends
ContinuedDropAtEof(full, ls, k) ==
  IF k >= Len(ls) THEN <<>> ELSE DropLast(full) \o <<" ">> \o Appended(ls, k)

\* the logical line after one round of the continuation loop, k the
\* 0-based index of the next physical line: lines 61-69
Continued(full, ls, k) == DropLast(full) \o <<" ">> \o Appended(ls, k)

\* inner loop, one round: lines 60-70
Continue ==
  /\ pc = "cont"
  /\ EndsWith(fullLine, Marker)
  /\ fullLine' = Continued(fullLine, lines, i + 1)
  /\ i' = i + 1
  /\ UNCHANGED << appVars, content, pc, lines, lineNumber, layers, stages, currentStage,
                  baseImages, tsResult, optPc, optimizations, jsParser >>

\* what the completed logical line does to the result under construction:
\* lines 72-93
Emitted(full, lineNo, lys, stgs, cur, bases) ==
  LET parsed == ParseLine(full, lineNo)
      layer == parsed[1]
  IN IF parsed = <<>>
     THEN [ layers |-> lys, stages |-> stgs, currentStage |-> cur, baseImages |-> bases ]
     ELSE IF layer.type = <<"FROM">>
     THEN [ layers |-> Append(lys, layer),
            stages |-> Append(stgs, NewStage(layer, Len(stgs))),
            currentStage |-> Len(stgs) + 1,
            baseImages |-> SetAdd(bases, BaseImageOf(layer)) ]
     ELSE IF cur # 0
     THEN [ layers |-> Append(lys, layer),
            stages |-> [stgs EXCEPT ![cur].layers = Append(@, layer)],
            currentStage |-> cur,
            baseImages |-> bases ]
     ELSE [ layers |-> Append(lys, layer), stages |-> stgs,
            currentStage |-> cur, baseImages |-> bases ]

\* the logical line is complete: lines 72-95
Emit ==
  /\ pc = "cont"
  /\ ~EndsWith(fullLine, Marker)
  /\ layers' = Emitted(fullLine, lineNumber, layers, stages, currentStage, baseImages).layers
  /\ stages' = Emitted(fullLine, lineNumber, layers, stages, currentStage, baseImages).stages
  /\ currentStage' =
       Emitted(fullLine, lineNumber, layers, stages, currentStage, baseImages).currentStage
  /\ baseImages' =
       Emitted(fullLine, lineNumber, layers, stages, currentStage, baseImages).baseImages
  /\ i' = i + 1
  /\ fullLine' = <<>>
  /\ lineNumber' = 0
  /\ pc' = IF ThrowsTypeError(fullLine) THEN "error" ELSE "scan"
  /\ UNCHANGED << appVars, content, lines, tsResult, optPc, optimizations, jsParser >>

\* the input is exhausted: lines 98-103
Return ==
  /\ pc = "scan"
  /\ i >= Len(lines)
  /\ tsResult' = [ layers |-> layers, stages |-> stages,
                   hasMultiStage |-> HasMultiStage(stages), baseImages |-> baseImages ]
  /\ pc' = "done"
  /\ lines' = <<>>
  /\ i' = 0
  /\ layers' = <<>>
  /\ stages' = <<>>
  /\ currentStage' = 0
  /\ baseImages' = <<>>
  /\ UNCHANGED << appVars, content, fullLine, lineNumber, optPc, optimizations, jsParser >>

TsParseStep == ParseCall \/ SkipLine \/ StartLine \/ Continue \/ Emit \/ Return


(***************************************************************************)
(* JavaScript DockerfileParser (src/dockerfile-parser.js).                 *)
(***************************************************************************)
\* the value null
Null == <<"null">>

\* truthiness of a string, null or undefined
JsFalsy(s) == s = Null \/ Falsy(s)

\* s.indexOf(c) for a one-symbol needle
IndexOfSym(s, c) == IndexFrom(s, c, 0)

\* parseInstruction: lines 64-103
ParseInstruction(line, lineNum) ==
  LET firstSpace == IndexOfSym(line, " ")
      bracket == IndexOfSym(line, "[")
  IN IF StartsWith(line, <<"[">>) /\ EndsWith(line, <<"]">>)
     THEN [ directive |-> ToUpperCase(Trim(Slice(line, 0, bracket))),
            arguments |-> Trim(Slice(line, bracket, Len(line))),
            raw |-> line, lineNum |-> lineNum, continuation |-> FALSE ]
     ELSE IF EndsWith(line, Marker)
     THEN [ directive |-> ToUpperCase(Trim(Slice(line, 0, firstSpace))),
            arguments |-> Trim(Slice(line, firstSpace + 1, -1)),
            raw |-> line, lineNum |-> lineNum, continuation |-> TRUE ]
     ELSE IF firstSpace = -1
     THEN [ directive |-> ToUpperCase(line), arguments |-> Empty,
            raw |-> line, lineNum |-> lineNum, continuation |-> FALSE ]
     ELSE [ directive |-> ToUpperCase(Trim(Slice(line, 0, firstSpace))),
            arguments |-> Trim(Slice(line, firstSpace + 1, Len(line))),
            raw |-> line, lineNum |-> lineNum, continuation |-> FALSE ]

\* parseFromInstruction: lines 108-123
ParseFromInstruction(instruction) ==
  LET parts == SplitWs(instruction.arguments)
      asIndex == IndexOf([k \in 1..Len(parts) |-> ToUpperCase(parts[k])], <<"AS">>)
      as == IF asIndex # -1 /\ asIndex + 1 < Len(parts) THEN parts[asIndex + 2] ELSE Null
  IN [ base |-> parts[1], as |-> as, name |-> as ]

\* the stage that parse starts with: line 19
BaseStage == [ name |-> <<"base">>, from |-> Null, as |-> Undefined, instructions |-> <<>> ]

\* whether a FROM pushes the stage it closes: line 38
ClosesStage(cur) == ~JsFalsy(cur.from)

\* the last stage pushed unconditionally
PushesLastAlways(cur) == TRUE

\* whether the last stage is pushed when the loop ends: line 56
PushesLast(cur) == ~JsFalsy(cur.from) \/ Len(cur.instructions) > 0

\* the body of the loop of parse for the line of 0-based index k: lines 22-53
RECURSIVE JsLoop(_, _, _, _, _, _)
JsLoop(ls, k, cur, stageIndex, stgs, instrs) ==
  IF k >= Len(ls)
  THEN [ stages |-> IF PushesLast(cur) THEN Append(stgs, cur) ELSE stgs,
         instructions |-> instrs ]
  ELSE LET line == Trim(ls[k + 1])
           instruction == ParseInstruction(line, k + 1)
       IN IF JsFalsy(line) \/ StartsWith(line, Hash)
          THEN JsLoop(ls, k + 1, cur, stageIndex, stgs, instrs)
          ELSE IF ToUpperCase(instruction.directive) = <<"FROM">>
          THEN LET closes == ClosesStage(cur)
                   idx == IF closes THEN stageIndex + 1 ELSE stageIndex
                   info == ParseFromInstruction(instruction)
               IN JsLoop(ls, k + 1,
                         [ name |-> IF JsFalsy(info.name)
                                    THEN <<"stage_">> \o NumStr(idx) ELSE info.name,
                           from |-> info.base,
                           as |-> info.as,
                           instructions |-> <<instruction>> ],
                         idx,
                         IF closes THEN Append(stgs, cur) ELSE stgs,
                         Append(instrs, instruction))
          ELSE JsLoop(ls, k + 1,
                      [cur EXCEPT !.instructions = Append(@, instruction)],
                      stageIndex, stgs, Append(instrs, instruction))

\* parse(): lines 18-59; it appends to this.stages and this.instructions
JsParse(parser) ==
  LET r == JsLoop(parser.lines, 0, BaseStage, 0, parser.stages, parser.instructions)
  IN [parser EXCEPT !.stages = r.stages, !.instructions = r.instructions]

\* new DockerfileParser(content): lines 7-13
JsNew ==
  /\ pc \in {"start", "done"}
  /\ ~jsParser.constructed
  /\ jsParser' = JsParse([ constructed |-> TRUE, content |-> content,
                           lines |-> Split(content, "\n"),
                           stages |-> <<>>, instructions |-> <<>> ])
  /\ UNCHANGED << appVars, content, pc, tsLocals, tsResult, optPc, optimizations >>

\* parse() called again on the constructed instance, as long as the
\* instruction list is no longer than the longest input
JsReparse ==
  /\ jsParser.constructed
  /\ Len(jsParser.instructions) <= MaxLines
  /\ jsParser' = JsParse(jsParser)
  /\ UNCHANGED << appVars, content, pc, tsLocals, tsResult, optPc, optimizations >>

\* getStages(), getInstructions(), isMultiStage(): lines 128-144
GetStages == jsParser.stages

GetInstructions == jsParser.instructions

IsMultiStage == Len(jsParser.stages) > 1

(***************************************************************************)
(* TypeScript CacheOptimizer (src/cache-optimizer.ts).                     *)
(***************************************************************************)
\* s.split(sep) for a separator of several symbols
RECURSIVE SplitOnRec(_, _, _, _)
SplitOnRec(s, sep, cur, acc) ==
  IF s = <<>> THEN Append(acc, cur)
  ELSE IF StartsWith(s, sep)
       THEN SplitOnRec(SubSeq(s, Len(sep) + 1, Len(s)), sep, <<>>, Append(acc, cur))
  ELSE SplitOnRec(Tail(s), sep, Append(cur, Head(s)), acc)

SplitOn(s, sep) == SplitOnRec(s, sep, <<>>, <<>>)

\* s.includes(text) for a text that lies inside one word of the alphabet
HasSym(s, syms) == \E k \in 1..Len(s) : s[k] \in syms

\* arr.includes(x)
ArrIncludes(arr, x) == \E k \in 1..Len(arr) : arr[k] = x

\* layer.arguments.join(' ')
Cmd(layer) == Join(layer.arguments, <<" ">>)

\* nextCmd.match(/apt-get install -y (.+)/)?.[1] || ''
RECURSIVE InstallYFrom(_, _)
InstallYFrom(cmd, k) ==
  LET pat == <<"apt-get", " ", "install", " ", "-y", " ">>
  IN IF k + Len(pat) >= Len(cmd) THEN <<>>
     ELSE IF SubSeq(cmd, k + 1, k + Len(pat)) = pat
          THEN SubSeq(cmd, k + Len(pat) + 1, Len(cmd))
     ELSE InstallYFrom(cmd, k + 1)

\* combineAptGetUpdateInstall: lines 45-75
RECURSIVE CombineAptFrom(_, _)
CombineAptFrom(lys, k) ==
  IF k >= Len(lys) - 1 THEN <<>>
  ELSE LET current == lys[k + 1]
           next == lys[k + 2]
           currentCmd == Cmd(current)
           nextCmd == Cmd(next)
           hit == /\ current.type = <<"RUN">> /\ next.type = <<"RUN">>
                  /\ Includes(currentCmd, <<"apt-get", " ", "update">>)
                  /\ ~Includes(currentCmd, <<"apt-get", " ", "install">>)
                  /\ \/ Includes(nextCmd, <<"apt-get", " ", "install">>)
                     \/ Includes(nextCmd, <<"apt-get">>)
       IN (IF hit
           THEN << [ lineNumber |-> current.lineNumber,
                     severity |-> "high",
                     issue |-> <<"apt-get update and install are in separate layers">>,
                     before |-> current.raw \o <<"\n">> \o next.raw,
                     after |-> <<"RUN apt-get update && apt-get install -y ">>
                               \o InstallYFrom(nextCmd, 0)
                               \o <<" \\\n    && rm -rf /var/lib/apt/lists/*">> ] >>
           ELSE <<>>) \o CombineAptFrom(lys, k + 1)

\* a loop that starts at the second layer
CombineAptGetUpdateInstallFromSecond(pr) == CombineAptFrom(pr.layers, 1)

CombineAptGetUpdateInstall(pr) == CombineAptFrom(pr.layers, 0)

IsCopyPackageJson(l) == l.type = <<"COPY">> /\ ArrIncludes(l.arguments, <<"package*.json">>)

IsCopyDotOrStar(l) ==
  l.type = <<"COPY">> /\ (ArrIncludes(l.arguments, <<".">>) \/ ArrIncludes(l.arguments, <<"*">>))

IsCopyDot(l) == l.type = <<"COPY">> /\ ArrIncludes(l.arguments, <<".">>)

\* movePackageJsonEarly: lines 77-104
MovePackageJsonEarly(pr) ==
  LET copyPkgIndex == IndexOf([k \in 1..Len(pr.layers) |-> IsCopyPackageJson(pr.layers[k])], TRUE)
      copyDotIndex == IndexOf([k \in 1..Len(pr.layers) |-> IsCopyDotOrStar(pr.layers[k])], TRUE)
  IN IF copyPkgIndex > -1 /\ copyDotIndex > -1 /\ copyPkgIndex > copyDotIndex
     THEN << [ lineNumber |-> copyDotIndex,
               severity |-> "high",
               issue |-> <<"All source files are copied before package.json">>,
               before |-> pr.layers[copyPkgIndex + 1].raw,
               after |-> <<"COPY package*.json ./\nRUN npm ci --only=production\nCOPY . .">> ] >>
     ELSE <<>>

\* the words of the alphabet that contain '$' and '${'
DollarSyms == {"$v", "${v}"}

DollarBraceSyms == {"${v}"}

\* the test of the some() of orderRunByStability: line 115
RefersToVariable(l) ==
  \/ l.type = <<"RUN">> /\ HasSym(Cmd(l), DollarBraceSyms)
  \/ HasSym(Cmd(l), DollarSyms)

\* orderRunByStability: lines 106-131
RECURSIVE OrderRunFrom(_, _)
OrderRunFrom(lys, k) ==
  IF k >= Len(lys) THEN <<>>
  ELSE LET envLayer == lys[k + 1]
           hasRunAfter == \E n \in (k + 2)..Len(lys) : RefersToVariable(lys[n])
       IN (IF envLayer.type = <<"ENV">> /\ hasRunAfter
           THEN << [ lineNumber |-> envLayer.lineNumber,
                     severity |-> "medium",
                     issue |-> <<"ENV instruction may be overridden by subsequent RUN commands">>,
                     before |-> envLayer.raw,
                     after |-> <<"# Move this ENV after RUN if it should be runtime-only\n">>
                               \o envLayer.raw ] >>
           ELSE <<>>) \o OrderRunFrom(lys, k + 1)

OrderRunByStability(pr) == OrderRunFrom(pr.layers, 0)

\* dockerignoreSuggestion: lines 133-151
DockerignoreSuggestion(pr) ==
  LET copyDotIndex == IndexOf([k \in 1..Len(pr.layers) |-> IsCopyDot(pr.layers[k])], TRUE)
      copyDot == pr.layers[copyDotIndex + 1]
  IN IF /\ copyDotIndex # -1
        /\ ~\E n \in 1..Len(pr.layers) : HasSym(pr.layers[n].raw, {".dockerignore"})
     THEN << [ lineNumber |-> copyDot.lineNumber,
               severity |-> "medium",
               issue |-> <<"Using COPY . . without verifying .dockerignore">>,
               before |-> copyDot.raw,
               after |-> <<"# Add .dockerignore with: node_modules, .git, npm-debug.log, etc.\n">>
                         \o copyDot.raw ] >>
     ELSE <<>>

\* useBuildCacheMounts: lines 153-177
RECURSIVE CacheMountsFrom(_, _)
CacheMountsFrom(lys, k) ==
  IF k >= Len(lys) THEN <<>>
  ELSE LET layer == lys[k + 1]
           cmd == Cmd(layer)
           hasNpmOrYarn == \/ Includes(cmd, <<"npm", " ", "install">>)
                           \/ Includes(cmd, <<"npm", " ", "ci">>)
                           \/ Includes(cmd, <<"yarn", " ", "install">>)
           hasCacheMount == HasSym(cmd, {"--mount=type=cache"})
       IN (IF layer.type = <<"RUN">> /\ hasNpmOrYarn /\ ~hasCacheMount
           THEN << [ lineNumber |-> layer.lineNumber,
                     severity |-> "medium",
                     issue |-> <<"npm/yarn install without cache mount">>,
                     before |-> layer.raw,
                     after |-> <<"RUN --mount=type=cache,target=/root/.npm npm ci --only=production">> ] >>
           ELSE <<>>) \o CacheMountsFrom(lys, k + 1)

UseBuildCacheMounts(pr) == CacheMountsFrom(pr.layers, 0)

\* a loop that suggests a split for every RUN of more than 3 steps, whatever
\* the steps are
RECURSIVE SplitLongFromAnyOps(_, _)
SplitLongFromAnyOps(lys, k) ==
  IF k >= Len(lys) THEN <<>>
  ELSE LET layer == lys[k + 1]
           ops == SplitOn(Cmd(layer), <<" ", "&&", " ">>)
       IN (IF layer.type = <<"RUN">> /\ Len(ops) > 3
           THEN << [ lineNumber |-> layer.lineNumber,
                     severity |-> "low",
                     issue |-> <<"Many operations in a single RUN command">>,
                     before |-> layer.raw,
                     after |-> <<"# Split into separate RUN layers for better caching\nRUN <operation-1>\nRUN <operation-2>">> ] >>
           ELSE <<>>) \o SplitLongFromAnyOps(lys, k + 1)

\* the loop of splitLongRunCommands from the 0-based index k: lines 182-206
RECURSIVE SplitLongFrom(_, _)
SplitLongFrom(lys, k) ==
  IF k >= Len(lys) THEN <<>>
  ELSE LET layer == lys[k + 1]
           ops == SplitOn(Cmd(layer), <<" ", "&&", " ">>)
           hasAndThen == Len(ops) > 3
           hasIndependentOps ==
             \E n \in 1..Len(ops) : HasSym(Trim(ops[n]), {"install"}) \/ HasSym(Trim(ops[n]), {"download"})
       IN (IF layer.type = <<"RUN">> /\ hasAndThen /\ hasIndependentOps
           THEN << [ lineNumber |-> layer.lineNumber,
                     severity |-> "low",
                     issue |-> <<"Many operations in a single RUN command">>,
                     before |-> layer.raw,
                     after |-> <<"# Split into separate RUN layers for better caching\nRUN <operation-1>\nRUN <operation-2>">> ] >>
           ELSE <<>>) \o SplitLongFrom(lys, k + 1)

\* splitLongRunCommands: lines 179-209
SplitLongRunCommands(pr) == SplitLongFrom(pr.layers, 0)

\* useChainedDeps: lines 211-233
RECURSIVE ChainedFrom(_, _, _)
ChainedFrom(lys, k, consecutiveCopy) ==
  IF k >= Len(lys) THEN <<>>
  ELSE LET layer == lys[k + 1]
       IN IF layer.type = <<"COPY">>
          THEN ChainedFrom(lys, k + 1, consecutiveCopy + 1)
          ELSE IF consecutiveCopy > 1
          THEN << [ lineNumber |-> layer.lineNumber - consecutiveCopy,
                    severity |-> "low",
                    issue |-> NumStr(consecutiveCopy) \o <<" consecutive COPY instructions">>,
                    before |-> <<"[multiple COPY lines]">>,
                    after |-> <<"COPY src1 src2 src3 dest/">> ] >>
               \o ChainedFrom(lys, k + 1, 0)
          ELSE ChainedFrom(lys, k + 1, consecutiveCopy)

UseChainedDeps(pr) == ChainedFrom(pr.layers, 0, 0)

\* the results of the rules in the order of the rules array: lines 18-34
RuleResults(pr) ==
  CombineAptGetUpdateInstall(pr) \o MovePackageJsonEarly(pr) \o OrderRunByStability(pr)
    \o DockerignoreSuggestion(pr) \o UseBuildCacheMounts(pr) \o SplitLongRunCommands(pr)
    \o UseChainedDeps(pr)

\* a comparator that ranks low first
CompareLowFirst(a, b) ==
  LET severityOrder == [ high |-> 0, medium |-> 1, low |-> 2 ]
  IN severityOrder[b.severity] - severityOrder[a.severity]

\* the comparator of the sort: lines 37-40
Compare(a, b) ==
  LET severityOrder == [ high |-> 0, medium |-> 1, low |-> 2 ]
  IN severityOrder[a.severity] - severityOrder[b.severity]

\* Array.prototype.sort, which is stable: x goes before the first element
\* that the comparator places after it
RECURSIVE InsertSorted(_, _)
InsertSorted(sorted, x) ==
  IF sorted = <<>> THEN <<x>>
  ELSE IF Compare(Head(sorted), x) > 0 THEN <<x>> \o sorted
  ELSE <<Head(sorted)>> \o InsertSorted(Tail(sorted), x)

RECURSIVE SortFrom(_, _, _)
SortFrom(arr, k, sorted) ==
  IF k > Len(arr) THEN sorted ELSE SortFrom(arr, k + 1, InsertSorted(sorted, arr[k]))

Sort(arr) == SortFrom(arr, 1, <<>>)

\* optimize(parseResult): lines 28-43
Optimize ==
  /\ pc = "done"
  /\ optPc = "none"
  /\ optimizations' = Sort(RuleResults(tsResult))
  /\ optPc' = "done"
  /\ UNCHANGED << appVars, content, pc, tsLocals, tsResult, jsParser >>

(***************************************************************************)
(* JavaScript CacheRulesEngine (src/cache-rules.js).  A rule returns the   *)
(* empty list for null and a list of one finding otherwise.                *)
(***************************************************************************)
\* getInstructionsByType(directive): lines 149-151
GetInstructionsByType(parser, directive) ==
  SelectSeq(parser.instructions,
            LAMBDA ins : ToUpperCase(ins.directive) = ToUpperCase(directive))

\* getRunInstructions(), getCopyInstructions(), getAddInstructions(): lines 156-172
GetRunInstructions(parser) == GetInstructionsByType(parser, <<"RUN">>)

GetCopyInstructions(parser) == GetInstructionsByType(parser, <<"COPY">>)

GetAddInstructions(parser) == GetInstructionsByType(parser, <<"ADD">>)

\* args.includes('APT-GET INSTALL') || args.includes('YUM INSTALL') ||
\* args.includes('APK ADD'), on upper-cased arguments: line 45, and lines 126
\* and 169 of layer-analyzer.js
IsPackageInstall(args) ==
  \/ Includes(args, <<"APT-GET", " ", "INSTALL">>)
  \/ Includes(args, <<"YUM", " ", "INSTALL">>)
  \/ Includes(args, <<"APK", " ", "ADD">>)

\* packageInstallCombined: lines 41-65
PackageInstallCombined(parser) ==
  LET installRuns == SelectSeq(GetRunInstructions(parser),
                               LAMBDA r : IsPackageInstall(ToUpperCase(r.arguments)))
  IN IF Len(installRuns) = 0 THEN <<>>
     ELSE << [ rule |-> "package-install-combined",
               severity |-> "high",
               title |-> <<"Combine package installations">>,
               issues |-> [ k \in 1..Len(installRuns) |->
                            [ lineNum |-> installRuns[k].lineNum,
                              instruction |-> installRuns[k].raw ] ] ] >>

\* the issues that the loop of runCleaned pushes for one RUN: lines 75-93
RunCleanedIssues(run) ==
  LET args == ToUpperCase(run.arguments)
  IN (IF Includes(args, <<"APT-GET", " ", "INSTALL">>) /\ ~Includes(args, <<"RM", " ", "-RF">>)
      THEN << [ lineNum |-> run.lineNum, instruction |-> run.raw,
                reason |-> <<"Missing cleanup after apt-get install">> ] >>
      ELSE <<>>)
     \o
     (IF Includes(args, <<"YUM", " ", "INSTALL">>) /\ ~Includes(args, <<"YUM", " ", "CLEAN", " ", "ALL">>)
      THEN << [ lineNum |-> run.lineNum, instruction |-> run.raw,
                reason |-> <<"Missing cleanup after yum install">> ] >>
      ELSE <<>>)

RECURSIVE RunCleanedFrom(_, _)
RunCleanedFrom(runs, k) ==
  IF k > Len(runs) THEN <<>>
  ELSE RunCleanedIssues(runs[k]) \o RunCleanedFrom(runs, k + 1)

\* runCleaned: lines 70-108
RunCleaned(parser) ==
  LET issues == RunCleanedFrom(GetRunInstructions(parser), 1)
  IN IF Len(issues) = 0 THEN <<>>
     ELSE << [ rule |-> "run-cleaned", severity |-> "medium",
               title |-> <<"Clean up package caches">>, issues |-> issues ] >>

\* copyOrder: lines 113-145
CopyOrder(parser) ==
  LET copies == GetCopyInstructions(parser)
      pkgIndex == IndexOf([k \in 1..Len(copies) |->
                            HasSym(copies[k].arguments, {"package.json"})], TRUE)
      srcIndex == IndexOf([k \in 1..Len(copies) |->
                            HasSym(copies[k].arguments,
                                   {".", "package.json", "package*.json", "./app",
                                    "https://example.com/x.tar.gz", ".dockerignore"})
                              \/ HasSym(copies[k].arguments, {"src"})], TRUE)
  IN IF Len(copies) < 2 THEN <<>>
     ELSE IF pkgIndex # -1 /\ srcIndex # -1 /\ pkgIndex > srcIndex
     THEN << [ rule |-> "copy-order", severity |-> "high",
               title |-> <<"Order COPY by change frequency">>,
               issues |-> << [ lineNum |-> srcIndex,
                               instruction |-> copies[srcIndex + 1].raw,
                               reason |-> <<"Source files copied before package.json (breaks cache)">> ] >> ] >>
     ELSE <<>>

\* addVsCopy: lines 150-171
AddVsCopy(parser) ==
  LET adds == GetAddInstructions(parser)
  IN IF Len(adds) = 0 THEN <<>>
     ELSE << [ rule |-> "add-vs-copy", severity |-> "low",
               title |-> <<"Prefer COPY over ADD">>,
               issues |-> [ k \in 1..Len(adds) |->
                            [ lineNum |-> adds[k].lineNum,
                              instruction |-> adds[k].raw,
                              suggestion |-> <<"Consider using COPY instead unless you need ADD features (URL extraction, automatic tar extraction)">> ] ] ] >>

\* multiStage: lines 176-205
MultiStage(parser) ==
  LET hasBuildTools ==
        \E k \in 1..Len(parser.instructions) :
          HasSym(ToUpperCase(parser.instructions[k].arguments),
                 {"BUILD-ESSENTIAL", "GCC", "MAKE"})
  IN IF Len(parser.stages) > 1 THEN <<>>
     ELSE IF ~hasBuildTools THEN <<>>
     ELSE << [ rule |-> "multi-stage", severity |-> "medium",
               title |-> <<"Consider multi-stage builds">>,
               issues |-> << [ lineNum |-> 1,
                               instruction |-> <<"Single-stage build">>,
                               reason |-> <<"Build tools are included in final image">> ] >> ] >>

\* dockerignore: lines 210-220
Dockerignore(parser) ==
  << [ rule |-> "dockerignore", severity |-> "low",
       title |-> <<"Use .dockerignore file">>, issues |-> <<>> ] >>

\* the condition of the loop of layerOrder, in which && binds tighter than ||:
\* lines 234-235
LayerOrderHit(current, next) ==
  \/ /\ current.directive = <<"RUN">>
     /\ Includes(ToUpperCase(current.arguments), <<"APT-GET", " ", "UPDATE">>)
     /\ next.directive # <<"RUN">>
  \/ ~Includes(ToUpperCase(next.arguments), <<"APT-GET", " ", "INSTALL">>)

RECURSIVE LayerOrderFrom(_, _)
LayerOrderFrom(instructions, k) ==
  IF k >= Len(instructions) - 1 THEN <<>>
  ELSE LET current == instructions[k + 1]
           next == instructions[k + 2]
       IN (IF LayerOrderHit(current, next)
           THEN << [ lineNum |-> current.lineNum, instruction |-> current.raw,
                     reason |-> <<"apt-get update should be in same layer as install">> ] >>
           ELSE <<>>) \o LayerOrderFrom(instructions, k + 1)

\* layerOrder: lines 225-256
LayerOrder(parser) ==
  LET issues == LayerOrderFrom(parser.instructions, 0)
  IN IF Len(issues) = 0 THEN <<>>
     ELSE << [ rule |-> "layer-order", severity |-> "medium",
               title |-> <<"Combine update and install">>, issues |-> issues ] >>

\* aptUpdateTogether: lines 261-282
AptUpdateTogether(parser) ==
  LET runs == GetRunInstructions(parser)
      updates == SelectSeq(runs, LAMBDA r :
                   Includes(ToUpperCase(r.arguments), <<"APT-GET", " ", "UPDATE">>))
      installs == SelectSeq(runs, LAMBDA r :
                    Includes(ToUpperCase(r.arguments), <<"APT-GET", " ", "INSTALL">>))
  IN IF Len(updates) # Len(installs) /\ Len(updates) > 0
     THEN << [ rule |-> "apt-update-together", severity |-> "medium",
               title |-> <<"Mismatched update and install">>,
               issues |-> [ k \in 1..Len(updates) |->
                            [ lineNum |-> updates[k].lineNum,
                              instruction |-> updates[k].raw,
                              reason |-> <<"Update without corresponding install">> ] ] ] >>
     ELSE <<>>

\* npmCache: lines 287-313
NpmCache(parser) ==
  LET npmInstalls == SelectSeq(GetRunInstructions(parser),
                       LAMBDA r : Includes(ToUpperCase(r.arguments), <<"NPM", " ", "INSTALL">>))
      issues == SelectSeq(npmInstalls, LAMBDA r : ~HasSym(r.arguments, {"--mount=type=cache"}))
  IN IF Len(npmInstalls) = 0 THEN <<>>
     ELSE IF Len(issues) = 0 THEN <<>>
     ELSE << [ rule |-> "npm-cache", severity |-> "low",
               title |-> <<"Consider npm cache mounts">>,
               issues |-> [ k \in 1..Len(issues) |->
                            [ lineNum |-> issues[k].lineNum,
                              instruction |-> issues[k].raw,
                              reason |-> <<"Could benefit from cache mount">> ] ] ] >>

\* wildcardCopies: lines 318-338
WildcardCopies(parser) ==
  LET issues == SelectSeq(GetCopyInstructions(parser),
                          LAMBDA c : HasSym(c.arguments, {"*", "package*.json", "/var/lib/apt/lists/*"}))
  IN IF Len(issues) = 0 THEN <<>>
     ELSE << [ rule |-> "wildcard-copies", severity |-> "low",
               title |-> <<"Avoid wildcard COPY patterns">>,
               issues |-> [ k \in 1..Len(issues) |->
                            [ lineNum |-> issues[k].lineNum,
                              instruction |-> issues[k].raw,
                              reason |-> <<"Wildcard pattern may include unintended files">> ] ] ] >>

\* analyze(parser): the results of the rules in the order of this.rules,
\* lines 8-19 and 25-36
CacheRulesAnalyze(parser) ==
  PackageInstallCombined(parser) \o RunCleaned(parser) \o CopyOrder(parser)
    \o AddVsCopy(parser) \o MultiStage(parser) \o Dockerignore(parser)
    \o LayerOrder(parser) \o AptUpdateTogether(parser) \o NpmCache(parser)
    \o WildcardCopies(parser)

(***************************************************************************)
(* JavaScript LayerAnalyzer (src/layer-analyzer.js).  Sizes are numbers of *)
(* bytes.                                                                  *)
(***************************************************************************)
\* parseFloat of the numbers that the size strings drawn here are written with
NumberValue == ("0" :> 0) @@ ("1" :> 1) @@ ("2" :> 2) @@ ("512" :> 512)

\* const units of parseSize, for the units of the size strings drawn here:
\* lines 51-54
SizeUnits == ("B" :> 1) @@ ("KB" :> 1024) @@ ("MB" :> 1024 * 1024)

\* parseSize: lines 36-60; the regular expression asks for a number, optional
\* whitespace and a unit
ParseSize(sizeStr) ==
  IF Falsy(sizeStr) \/ sizeStr = <<"0", "B">> THEN 0
  ELSE LET clean == ToUpperCase(Trim(sizeStr))
           n == Len(clean)
           match == /\ n >= 2
                    /\ clean[1] \in DOMAIN NumberValue
                    /\ clean[n] \in DOMAIN SizeUnits
                    /\ \A k \in 2..(n - 1) : IsWs(clean[k])
       IN IF ~match THEN 0 ELSE NumberValue[clean[1]] * SizeUnits[clean[n]]

\* (num / den).toFixed(2)
ToFixed2(num, den) ==
  LET hundredths == ((num % den) * 200 + den) \div (2 * den)
      whole == (num \div den) + (IF hundredths = 100 THEN 1 ELSE 0)
      frac == IF hundredths = 100 THEN 0 ELSE hundredths
  IN NumStr(whole) \o <<".">> \o <<Digits[(frac \div 10) + 1], Digits[(frac % 10) + 1]>>

\* formatBytes: lines 65-72
FormatBytes(bytes) ==
  LET units == <<"B", "KB", "MB", "GB", "TB">>
      idx == IF bytes < 1024 THEN 0
             ELSE IF bytes < 1024 * 1024 THEN 1
             ELSE IF bytes < 1024 * 1024 * 1024 THEN 2 ELSE 3
      pow == <<1, 1024, 1024 * 1024, 1024 * 1024 * 1024>>
  IN IF bytes = 0 THEN <<"0", "B">>
     ELSE ToFixed2(bytes, pow[idx + 1]) \o <<units[idx + 1]>>

\* the loop of parseHistoryOutput: lines 19-28
RECURSIVE HistoryFrom(_, _)
HistoryFrom(ls, k) ==
  IF k > Len(ls) THEN <<>>
  ELSE LET parts == Split(ls[k], "|")
       IN (IF Len(parts) >= 3
           THEN << [ id |-> parts[1], size |-> ParseSize(parts[2]),
                     createdBy |-> parts[3] ] >>
           ELSE <<>>) \o HistoryFrom(ls, k + 1)

\* parseHistoryOutput: lines 15-31; it replaces this.layers
ParseHistoryOutput(output) == HistoryFrom(Split(Trim(output), "\n"), 1)

\* getTotalSize: lines 77-79
RECURSIVE GetTotalSize(_)
GetTotalSize(lys) == IF lys = <<>> THEN 0 ELSE Head(lys).size + GetTotalSize(Tail(lys))

\* sort((a, b) => b.size - a.size), which is stable
RECURSIVE InsertBySize(_, _)
InsertBySize(sorted, x) ==
  IF sorted = <<>> THEN <<x>>
  ELSE IF x.size - Head(sorted).size > 0 THEN <<x>> \o sorted
  ELSE <<Head(sorted)>> \o InsertBySize(Tail(sorted), x)

RECURSIVE SortBySizeFrom(_, _, _)
SortBySizeFrom(arr, k, sorted) ==
  IF k > Len(arr) THEN sorted ELSE SortBySizeFrom(arr, k + 1, InsertBySize(sorted, arr[k]))

\* getLargestLayers(count): lines 84-88
GetLargestLayers(lys, count) ==
  LET sorted == SortBySizeFrom(lys, 1, <<>>)
  IN SubSeq(sorted, 1, IF Len(sorted) < count THEN Len(sorted) ELSE count)

\* LayerAnalyzer.analyze: lines 93-110; the average is kept as a fraction
LayerAnalyze(lys) ==
  LET totalSize == GetTotalSize(lys)
      largest == GetLargestLayers(lys, 5)
  IN [ totalLayers |-> Len(lys),
       totalSize |-> totalSize,
       formattedTotalSize |-> FormatBytes(totalSize),
       largestLayers |-> [ k \in 1..Len(largest) |->
         [ id |-> SubSeq(largest[k].id, 1,
                         IF Len(largest[k].id) < 12 THEN Len(largest[k].id) ELSE 12),
           size |-> largest[k].size,
           formattedSize |-> FormatBytes(largest[k].size),
           percent |-> IF totalSize = 0 THEN <<"NaN">>
                       ELSE ToFixed2(largest[k].size * 100, totalSize),
           createdBy |-> largest[k].createdBy ] ],
       averageLayerSize |-> IF Len(lys) = 0 THEN <<"NaN">>
                            ELSE [ num |-> totalSize, den |-> Len(lys) ] ]

\* the second and third conditions of estimateFromDockerfile and
\* estimateReason: lines 128-130 and 171-173
IsDependencyInstall(args) ==
  Includes(args, <<"NPM", " ", "INSTALL">>) \/ Includes(args, <<"PIP", " ", "INSTALL">>)

IsDownload(args) ==
  Includes(args, <<"GIT", " ", "CLONE">>) \/ HasSym(args, {"WGET"}) \/ HasSym(args, {"CURL"})

\* estimateReason: lines 166-180
EstimateReason(arguments) ==
  LET args == ToUpperCase(arguments)
  IN IF IsPackageInstall(args) THEN <<"Package installation">>
     ELSE IF IsDependencyInstall(args) THEN <<"Dependency installation">>
     ELSE IF IsDownload(args) THEN <<"Download operation">>
     ELSE IF HasSym(args, {"MAKE", "CMAKE", "BUILD", "BUILD-ESSENTIAL"})
     THEN <<"Build operation">>
     ELSE <<"Command execution">>

\* the estimate of one RUN: lines 123-140
RunEstimate(run) ==
  LET args == ToUpperCase(run.arguments)
      estimated == IF IsPackageInstall(args) THEN 50 * 1024 * 1024
                   ELSE IF IsDependencyInstall(args) THEN 20 * 1024 * 1024
                   ELSE IF IsDownload(args) THEN 100 * 1024 * 1024
                   ELSE 10 * 1024
  IN [ type |-> <<"RUN">>, lineNum |-> run.lineNum, estimatedSize |-> estimated,
       formattedSize |-> FormatBytes(estimated),
       reason |-> EstimateReason(run.arguments) ]

\* the estimate of one COPY or ADD: lines 145-154
CopyEstimate(copy) ==
  [ type |-> copy.directive, lineNum |-> copy.lineNum,
    estimatedSize |-> 5 * 1024 * 1024,
    formattedSize |-> FormatBytes(5 * 1024 * 1024),
    reason |-> <<"Cannot determine without file access">> ]

RECURSIVE SumEstimates(_)
SumEstimates(es) == IF es = <<>> THEN 0 ELSE Head(es).estimatedSize + SumEstimates(Tail(es))

\* estimateFromDockerfile: lines 116-161
EstimateFromDockerfile(parser) ==
  LET runs == GetRunInstructions(parser)
      copies == GetCopyInstructions(parser) \o GetAddInstructions(parser)
      estimates == [ k \in 1..Len(runs) |-> RunEstimate(runs[k]) ]
                   \o [ k \in 1..Len(copies) |-> CopyEstimate(copies[k]) ]
  IN [ totalEstimated |-> SumEstimates(estimates),
       formattedTotal |-> FormatBytes(SumEstimates(estimates)),
       estimates |-> estimates ]

(***************************************************************************)
(* JavaScript Analyzer (src/analyzer.js).                                  *)
(***************************************************************************)
\* constructor: lines 11-17; parser is null until load or parse, and layers
\* is the list of the LayerAnalyzer
NewAnalyzer == [ dockerfilePath |-> Undefined, dockerfile |-> Null, parser |-> NoParser, layers |-> <<>> ]

\* the value of ret before any call
\* readFile is the outcome of the read of load (none, resolved, rejected)
\* and historyOutput the argument of analyzeFromHistory
NoReturn == [ kind |-> "none", options |-> [ estimateSizes |-> FALSE ], value |-> Null,
              readFile |-> "none", historyOutput |-> <<>> ]

\* new DockerfileParser(content), whose constructor parses: lines 7-13 of
\* dockerfile-parser.js
NewDockerfileParser(text) ==
  JsParse([ constructed |-> TRUE, content |-> text, lines |-> Split(text, "\n"),
            stages |-> <<>>, instructions |-> <<>> ])

\* a parse that keeps the parser of the instance and parses into it
ParsedWithReuse(an, text) ==
  [ an EXCEPT !.dockerfile = text,
              !.parser = IF an.parser.constructed
                         THEN JsParse([ an.parser EXCEPT !.content = text,
                                                         !.lines = Split(text, "\n") ])
                         ELSE NewDockerfileParser(text) ]

\* the assignments of parse(content): lines 39-40
ParsedWith(an, text) ==
  [ an EXCEPT !.dockerfile = text, !.parser = NewDockerfileParser(text) ]

\* analyzeLayers of the JavaScript parser: lines 177-194 of dockerfile-parser.js
AnalyzeLayers(parser) ==
  LET total == Len(parser.instructions)
      run == Len(GetRunInstructions(parser))
      copy == Len(GetCopyInstructions(parser))
      add == Len(GetAddInstructions(parser))
  IN [ totalInstructions |-> total,
       stages |-> Len(parser.stages),
       layers |-> [ run |-> run, copy |-> copy, add |-> add,
                    other |-> total - run - copy - add ],
       potentialIssues |-> <<>> ]

\* a count that takes every finding for one of the severity
CountSeverityAll(cacheIssues, sev) == Len(cacheIssues)

\* the number of findings of one severity: lines 74-76
CountSeverity(cacheIssues, sev) ==
  Len(SelectSeq(cacheIssues, LAMBDA f : f.severity = sev))

\* the results of analyze(options) for a loaded instance: lines 52-83
Analyze(an, options) ==
  LET structure == AnalyzeLayers(an.parser)
      cacheIssues == CacheRulesAnalyze(an.parser)
  IN [ summary |-> [ totalInstructions |-> structure.totalInstructions,
                     stages |-> structure.stages,
                     isMultiStage |-> Len(an.parser.stages) > 1,
                     issues |-> [ high |-> CountSeverity(cacheIssues, "high"),
                                  medium |-> CountSeverity(cacheIssues, "medium"),
                                  low |-> CountSeverity(cacheIssues, "low") ] ],
       structure |-> structure,
       cacheIssues |-> cacheIssues,
       layerEstimate |-> IF options.estimateSizes
                         THEN EstimateFromDockerfile(an.parser) ELSE Null ]

\* parse(content): lines 38-42
AnalyzerParse ==
  /\ ~cli.ran
  /\ \E text \in texts :
       analyzer' = ParsedWith(analyzer, text)
  /\ ret' = [ kind |-> "this", options |-> [ estimateSizes |-> FALSE ], value |-> Null,
              readFile |-> "none", historyOutput |-> <<>> ]
  /\ UNCHANGED << content, pc, tsLocals, tsResult, optPc, optimizations, jsParser,
                  texts, cli, tsCli >>

\* analyze(options): lines 47-84
AnalyzerAnalyze ==
  /\ ~cli.ran
  /\ \E estimateSizes \in BOOLEAN :
       LET options == [ estimateSizes |-> estimateSizes ]
       IN ret' = IF ~analyzer.parser.constructed
                 THEN [ kind |-> "throw", options |-> options,
                        value |-> <<"Dockerfile not loaded. Call load() or parse() first.">>,
                        readFile |-> "none", historyOutput |-> <<>> ]
                 ELSE [ kind |-> "report", options |-> options,
                        value |-> Analyze(analyzer, options),
                        readFile |-> "none", historyOutput |-> <<>> ]
  /\ UNCHANGED << content, pc, tsLocals, tsResult, optPc, optimizations, jsParser,
                  texts, analyzer, cli, tsCli >>

\* the outputs of `docker history` that analyzeFromHistory is called with
HistoryOutputs ==
  { <<>>,
    <<"junk">>,
    <<"a", "|", "1", "KB", "|", "x", "\n">>,
    <<"a", "|", "1", "KB", "\n", "b", "|", "1", "KB", "|", "y", "|", "x">>,
    <<"a", "|", "0", "B", "|", "x", "\n", "b", "|", "2", " ", "mb", "|", "y">> }

\* an analyzeFromHistory whose parseHistoryOutput keeps the layers it has
AnalyzeFromHistoryAppending ==
  /\ ~cli.ran
  /\ \E historyOutput \in HistoryOutputs :
       LET lys == analyzer.layers \o ParseHistoryOutput(historyOutput)
       IN /\ analyzer' = [ analyzer EXCEPT !.layers = lys ]
          /\ ret' = [ kind |-> "history", options |-> [ estimateSizes |-> FALSE ],
                      value |-> LayerAnalyze(lys),
                      readFile |-> "none", historyOutput |-> historyOutput ]
  /\ UNCHANGED << content, pc, tsLocals, tsResult, optPc, optimizations, jsParser,
                  texts, cli, tsCli >>

\* analyzeFromHistory(historyOutput): lines 89-92
AnalyzeFromHistory ==
  /\ ~cli.ran
  /\ \E historyOutput \in HistoryOutputs :
       LET lys == ParseHistoryOutput(historyOutput)
       IN /\ analyzer' = [ analyzer EXCEPT !.layers = lys ]
          /\ ret' = [ kind |-> "history", options |-> [ estimateSizes |-> FALSE ],
                      value |-> LayerAnalyze(lys),
                      readFile |-> "none", historyOutput |-> historyOutput ]
  /\ UNCHANGED << content, pc, tsLocals, tsResult, optPc, optimizations, jsParser,
                  texts, cli, tsCli >>

(***************************************************************************)
(* main of the JavaScript CLI (bin/cli.js).  An argument is a string whose *)
(* leading dashes are symbols of their own; file is what the file system   *)
(* holds at the resolved path.                                             *)
(***************************************************************************)
\* the value of cli before main has run
NoCli == [ ran |-> FALSE, args |-> <<>>,
           file |-> [ exists |-> FALSE, readable |-> FALSE, content |-> <<>> ],
           exit |-> -1, error |-> Empty, usage |-> FALSE,
           completed |-> FALSE, printed |-> Null ]

\* the loop over the arguments, from the 0-based index k: lines 119-132
RECURSIVE ArgLoop(_, _, _)
ArgLoop(args, k, st) ==
  IF k >= Len(args) THEN st
  ELSE LET arg == args[k + 1]
       IN IF arg = <<"-", "-", "help">> \/ arg = <<"-", "h">>
          THEN [ st EXCEPT !.help = TRUE ]
          ELSE IF arg = <<"-", "-", "format">> \/ arg = <<"-", "f">>
          THEN ArgLoop(args, k + 2, [ st EXCEPT !.format = At(args, k + 1) ])
          ELSE IF arg = <<"-", "-", "estimate">> \/ arg = <<"-", "e">>
          THEN ArgLoop(args, k + 1, [ st EXCEPT !.estimateSizes = TRUE ])
          ELSE IF ~StartsWith(arg, <<"-">>)
          THEN ArgLoop(args, k + 1, [ st EXCEPT !.dockerfilePath = arg ])
          ELSE ArgLoop(args, k + 1, st)

\* the exit status for any finding at all
ExitStatusAnyIssue(results) == IF Len(results.cacheIssues) > 0 THEN 2 ELSE 0

\* the exit status of a completed analysis: lines 173-177
ExitStatus(results) == IF results.summary.issues.high > 0 THEN 2 ELSE 0

\* load(): lines 22-33 of analyzer.js; readFile succeeds on a readable file
Loaded(an, file) ==
  [ an EXCEPT !.dockerfile = file.content, !.parser = NewDockerfileParser(file.content) ]

\* main: lines 111-182
Main(args, file) ==
  LET st == ArgLoop(args, 0, [ dockerfilePath |-> Null, format |-> <<"text">>,
                               estimateSizes |-> FALSE, help |-> FALSE ])
      results == Analyze(Loaded([ NewAnalyzer EXCEPT !.dockerfilePath = st.dockerfilePath ], file),
                         [ estimateSizes |-> st.estimateSizes ])
      run == [ NoCli EXCEPT !.ran = TRUE, !.args = args, !.file = file ]
  IN IF st.help
     THEN [ run EXCEPT !.usage = TRUE, !.exit = 0 ]
     ELSE IF JsFalsy(st.dockerfilePath)
     THEN [ run EXCEPT !.error = <<"Error: Dockerfile path required">>,
                       !.usage = TRUE, !.exit = 1 ]
     ELSE IF st.format # <<"json">> /\ st.format # <<"text">>
     THEN [ run EXCEPT !.error = <<"Error: Invalid format. Use \"json\" or \"text\"">>,
                       !.exit = 1 ]
     ELSE IF ~file.exists
     THEN [ run EXCEPT !.error = <<"Error: File not found: ">> \o st.dockerfilePath,
                       !.exit = 1 ]
     ELSE IF ~file.readable
     THEN [ run EXCEPT !.error = <<"Error: Failed to load Dockerfile: ">>, !.exit = 1 ]
     ELSE [ run EXCEPT !.completed = TRUE,
                       !.printed = [ format |-> st.format, results |-> results ],
                       !.exit = ExitStatus(results) ]

\* the command lines that main is run with
CliArgs ==
  { <<>>,
    << <<"Dockerfile">> >>,
    << <<"analyze">>, <<"Dockerfile">>, <<"-", "e">> >>,
    << <<"Dockerfile">>, <<"-", "-", "format">>, <<"json">> >>,
    << <<"Dockerfile">>, <<"-", "f">>, <<"xml">> >>,
    << <<"Dockerfile">>, <<"-", "-", "format">> >>,
    << <<"-", "f">>, <<"Dockerfile">> >>,
    << <<"-", "x">>, <<"Dockerfile">> >>,
    << <<"Dockerfile">>, <<"-", "-", "help">> >> }

\* what the file system holds at the path
CliFiles ==
  { [ exists |-> FALSE, readable |-> FALSE, content |-> <<>> ],
    [ exists |-> TRUE, readable |-> FALSE, content |-> <<>> ] }
  \cup { [ exists |-> TRUE, readable |-> TRUE, content |-> text ] : text \in texts }

\* a run of main in a process of its own
CliMain ==
  /\ ~cli.ran
  /\ analyzer.dockerfile = Null
  /\ ret = NoReturn
  /\ \E args \in CliArgs : \E file \in CliFiles : cli' = Main(args, file)
  /\ UNCHANGED << content, pc, tsLocals, tsResult, optPc, optimizations, jsParser,
                  texts, analyzer, ret, tsCli >>

(***************************************************************************)
(* load() and generateSuggestions() of the Analyzer (src/analyzer.js).     *)
(***************************************************************************)
\* a load that forgets the Dockerfile of the instance when the read fails
LoadClearing(an, file) ==
  IF an.dockerfilePath # Undefined /\ file.exists /\ file.readable
  THEN [ analyzer |-> Loaded(an, file), value |-> Null, readFile |-> "resolved" ]
  ELSE [ analyzer |-> [ an EXCEPT !.dockerfile = Null, !.parser = NoParser ],
         value |-> <<"Failed to load Dockerfile: ">>
                   \o (IF an.dockerfilePath = Undefined THEN <<"ERR_INVALID_ARG_TYPE">>
                       ELSE IF ~file.exists THEN <<"ENOENT">> ELSE <<"EACCES">>),
         readFile |-> "rejected" ]

\* load(): lines 22-33; readFile rejects an undefined path, a missing file
\* and an unreadable one, and the catch rethrows with the prefix
Load(an, file) ==
  IF an.dockerfilePath # Undefined /\ file.exists /\ file.readable
  THEN [ analyzer |-> Loaded(an, file), value |-> Null, readFile |-> "resolved" ]
  ELSE [ analyzer |-> an,
         value |-> <<"Failed to load Dockerfile: ">>
                   \o (IF an.dockerfilePath = Undefined THEN <<"ERR_INVALID_ARG_TYPE">>
                       ELSE IF ~file.exists THEN <<"ENOENT">> ELSE <<"EACCES">>),
         readFile |-> "rejected" ]

\* a call of load() with what the file system holds at the path
AnalyzerLoad ==
  /\ ~cli.ran
  /\ \E file \in CliFiles :
       /\ analyzer' = Load(analyzer, file).analyzer
       /\ ret' = [ kind |-> IF Load(analyzer, file).readFile = "resolved"
                            THEN "true" ELSE "throw",
                   options |-> [ estimateSizes |-> FALSE ],
                   value |-> Load(analyzer, file).value,
                   readFile |-> Load(analyzer, file).readFile,
                   historyOutput |-> <<>> ]
  /\ UNCHANGED << content, pc, tsLocals, tsResult, optPc, optimizations, jsParser,
                  texts, cli, tsCli >>

\* the suggestions of generateSuggestions() for a loaded instance: lines 102-121
Suggestions(an) ==
  LET sortedIssues == Sort(Analyze(an, [ estimateSizes |-> FALSE ]).cacheIssues)
  IN [ k \in 1..Len(sortedIssues) |->
         [ severity |-> sortedIssues[k].severity,
           title |-> sortedIssues[k].title,
           lines |-> [ j \in 1..Len(sortedIssues[k].issues) |->
                         sortedIssues[k].issues[j].lineNum ] ] ]

\* a generateSuggestions() that does not look at this.parser
GenerateSuggestionsUnchecked ==
  /\ ~cli.ran
  /\ ret' = [ kind |-> "suggestions", options |-> [ estimateSizes |-> FALSE ],
              value |-> Suggestions(analyzer),
              readFile |-> "none", historyOutput |-> <<>> ]
  /\ UNCHANGED << content, pc, tsLocals, tsResult, optPc, optimizations, jsParser,
                  texts, analyzer, cli, tsCli >>

\* generateSuggestions(): lines 97-122
GenerateSuggestions ==
  /\ ~cli.ran
  /\ ret' = IF ~analyzer.parser.constructed
            THEN [ kind |-> "throw", options |-> [ estimateSizes |-> FALSE ],
                   value |-> <<"Dockerfile not loaded. Call load() or parse() first.">>,
                   readFile |-> "none", historyOutput |-> <<>> ]
            ELSE [ kind |-> "suggestions", options |-> [ estimateSizes |-> FALSE ],
                   value |-> Suggestions(analyzer),
                   readFile |-> "none", historyOutput |-> <<>> ]
  /\ UNCHANGED << content, pc, tsLocals, tsResult, optPc, optimizations, jsParser,
                  texts, analyzer, cli, tsCli >>

(***************************************************************************)
(* printTextOutput of the TypeScript CLI (cli.ts).                         *)
(***************************************************************************)
\* the value of tsCli before printTextOutput has run
NoTsCli == [ printed |-> FALSE, severity |-> <<>>, filtered |-> <<>> ]

\* the values of --severity that the option documents: line 22
SeverityOptions == {"high", "medium", "low"}

\* const severityOrder: line 70
SeverityOrder == [ high |-> 0, medium |-> 1, low |-> 2 ]

\* severityOrder[options.severity] || 1, where 0 and undefined are falsy: line 71
MinSeverity(severity) ==
  IF severity \in DOMAIN SeverityOrder /\ SeverityOrder[severity] # 0
  THEN SeverityOrder[severity] ELSE 1

\* const filteredOptimizations: lines 73-75
FilteredOptimizations(cacheOptimizations, severity) ==
  SelectSeq(cacheOptimizations,
            LAMBDA opt : SeverityOrder[opt.severity] <= MinSeverity(severity))

\* printTextOutput(result, options): lines 45-122
PrintTextOutput ==
  /\ pc = "done"
  /\ optPc = "done"
  /\ ~tsCli.printed
  /\ \E severity \in SeverityOptions :
       tsCli' = [ printed |-> TRUE, severity |-> severity,
                  filtered |-> FilteredOptimizations(optimizations, severity) ]
  /\ UNCHANGED << content, pc, tsLocals, tsResult, optPc, optimizations, jsParser,
                  texts, analyzer, ret, cli >>

(***************************************************************************)
(* Specification of the two parsers.                                       *)
(***************************************************************************)
Init ==
  /\ content \in ParserTexts
  /\ pc = "start"
  /\ lines = <<>>
  /\ i = 0
  /\ fullLine = <<>>
  /\ lineNumber = 0
  /\ layers = <<>>
  /\ stages = <<>>
  /\ currentStage = 0
  /\ baseImages = <<>>
  /\ tsResult = NoResult
  /\ optPc = "none"
  /\ optimizations = <<>>
  /\ jsParser = NoParser
  /\ texts = {content}
  /\ analyzer = NewAnalyzer
  /\ ret = NoReturn
  /\ cli = NoCli
  /\ tsCli = NoTsCli

Next == TsParseStep \/ JsNew

Spec == Init /\ [][Next]_vars


(***************************************************************************)
(* Specification of a JavaScript parser instance whose parse() is called   *)
(* again after construction.                                               *)
(***************************************************************************)
NextJsParser == JsNew \/ JsReparse

SpecJsParser == Init /\ [][NextJsParser]_vars


(***************************************************************************)
(* Specification of the TypeScript parser followed by the optimizer.       *)
(***************************************************************************)
RuleLines ==
  { <<>>,
    <<"FROM", " ", "node">>,
    <<"COPY", " ", ".", " ", ".">>,
    <<"COPY", " ", "package*.json", " ", ".">>,
    <<"RUN", " ", "npm", " ", "install">>,
    <<"RUN", " ", "apt-get", " ", "update">>,
    <<"RUN", " ", "apt-get", " ", "install", " ", "-y", " ", "curl">>,
    <<"ENV", " ", "k=">>,
    <<"RUN", " ", "echo", " ", "$v", " ", "\\">>,
    <<"RUN", " ", "a", " ", "&&", " ", "b", " ", "&&", " ", "install", " ", "&&", " ", "c">>,
    <<"RUN", " ", "a", " ", "&&", " ", "b", " ", "&&", " ", "c", " ", "&&", " ", "b">>,
    <<"RUN", " ", "a", " ", "&&", " ", "install", " ", "&&", " ", "b">>,
    <<"WORKDIR", " ", "$v">> }

RuleTexts == { TextOf(ls) : ls \in SeqsUpTo(RuleLines, MaxRuleLines) }

InitOpt ==
  /\ content \in RuleTexts
  /\ pc = "start"
  /\ lines = <<>>
  /\ i = 0
  /\ fullLine = <<>>
  /\ lineNumber = 0
  /\ layers = <<>>
  /\ stages = <<>>
  /\ currentStage = 0
  /\ baseImages = <<>>
  /\ tsResult = NoResult
  /\ optPc = "none"
  /\ optimizations = <<>>
  /\ jsParser = NoParser
  /\ texts = {content}
  /\ analyzer = NewAnalyzer
  /\ ret = NoReturn
  /\ cli = NoCli
  /\ tsCli = NoTsCli

NextOpt == TsParseStep \/ Optimize \/ PrintTextOutput

SpecOpt == InitOpt /\ [][NextOpt]_vars

(***************************************************************************)
(* Specification of the JavaScript Analyzer on one Dockerfile: the caller  *)
(* parses the text and analyzes it.                                        *)
(***************************************************************************)
MaxJsLines == 3

JsLines ==
  { <<"FROM", " ", "node">>,
    <<"RUN", " ", "apt-get", " ", "update">>,
    <<"RUN", " ", "apt-get", " ", "install", " ", "-y", " ", "curl">>,
    <<"RUN", " ", "apt-get", " ", "install", " ", "-y", " ", "curl", " ", "&&", " ",
      "apt-get", " ", "clean">>,
    <<"RUN", " ", "apt-get", " ", "install", " ", "-y", " ", "curl", " ", "&&", " ",
      "rm", " ", "-rf", " ", "/var/lib/apt/lists/*">>,
    <<"RUN", " ", "yum", " ", "install", " ", "-y", " ", "git">>,
    <<"COPY", " ", ".", " ", ".">>,
    <<"COPY", " ", "package.json", " ", ".">>,
    <<"ADD", " ", "https://example.com/x.tar.gz", " ", "/app">>,
    <<"ADD", " ", "./app", " ", "/app">>,
    <<"RUN", " ", "make">>,
    <<"RUN", " ", "npm", " ", "install">> }

JsTexts == { TextOf(ls) : ls \in SeqsUpTo(JsLines, MaxJsLines) }

InitJs ==
  /\ content \in JsTexts
  /\ pc = "start"
  /\ lines = <<>>
  /\ i = 0
  /\ fullLine = <<>>
  /\ lineNumber = 0
  /\ layers = <<>>
  /\ stages = <<>>
  /\ currentStage = 0
  /\ baseImages = <<>>
  /\ tsResult = NoResult
  /\ optPc = "none"
  /\ optimizations = <<>>
  /\ jsParser = NoParser
  /\ texts = {content}
  /\ analyzer = NewAnalyzer
  /\ ret = NoReturn
  /\ cli = NoCli
  /\ tsCli = NoTsCli

NextJs == AnalyzerParse \/ AnalyzerAnalyze

SpecJs == InitJs /\ [][NextJs]_vars

(***************************************************************************)
(* Specification of the uses of the JavaScript package: one Analyzer       *)
(* instance called again and again with the texts at hand, or one run of   *)
(* the command line on a file.                                             *)
(***************************************************************************)
MaxAppLines == 2

AppLines ==
  { <<"FROM", " ", "node">>,
    <<"RUN", " ", "apt-get", " ", "install", " ", "-y", " ", "curl">>,
    <<"COPY", " ", ".", " ", ".">>,
    <<"ADD", " ", "./app", " ", "/app">> }

AppTexts == { TextOf(ls) : ls \in SeqsUpTo(AppLines, MaxAppLines) }

InitApp ==
  /\ content = <<>>
  /\ pc = "start"
  /\ lines = <<>>
  /\ i = 0
  /\ fullLine = <<>>
  /\ lineNumber = 0
  /\ layers = <<>>
  /\ stages = <<>>
  /\ currentStage = 0
  /\ baseImages = <<>>
  /\ tsResult = NoResult
  /\ optPc = "none"
  /\ optimizations = <<>>
  /\ jsParser = NoParser
  /\ texts = AppTexts
  /\ analyzer \in { [ NewAnalyzer EXCEPT !.dockerfilePath = path ] :
                      path \in {Undefined, <<"Dockerfile">>} }
  /\ ret = NoReturn
  /\ cli = NoCli
  /\ tsCli = NoTsCli

NextApp ==
  \/ AnalyzerParse
  \/ AnalyzerAnalyze
  \/ AnalyzeFromHistory
  \/ AnalyzerLoad
  \/ GenerateSuggestions
  \/ CliMain

SpecApp == InitApp /\ [][NextApp]_vars

(***************************************************************************)
(* Vocabulary of the properties: the input as the reader of a Dockerfile   *)
(* sees it.                                                                *)
(***************************************************************************)
InputLines == Split(content, "\n")

HasMarker(l) == \E k \in 1..Len(l) : l[k] = "\\"

IsContentLine(l) == ~IsSkipped(Trim(l))

EndsMarked(l) == EndsWith(Trim(l), Marker)

NonEmptyTokens(l) == SelectSeq(SplitWs(l), LAMBDA t : t # <<>>)

\* the whitespace-delimited tokens of a physical line, its marker set aside
LineTokens(l) == NonEmptyTokens(IF EndsMarked(l) THEN DropLast(Trim(l)) ELSE Trim(l))

FirstToken(l) == IF LineTokens(l) = <<>> THEN <<>> ELSE LineTokens(l)[1]

\* the directives that the specification lists
DirectiveTable ==
  { <<"FROM">>, <<"RUN">>, <<"CMD">>, <<"LABEL">>, <<"MAINTAINER">>,
    <<"EXPOSE">>, <<"ENV">>, <<"ADD">>, <<"COPY">>, <<"ENTRYPOINT">>,
    <<"VOLUME">>, <<"USER">>, <<"WORKDIR">>, <<"ARG">>, <<"ONBUILD">>,
    <<"STOPSIGNAL">>, <<"HEALTHCHECK">>, <<"SHELL">> }

IsKnownLine(l) == ToUpperCase(FirstToken(l)) \in DirectiveTable

IsFromLine(l) == IsContentLine(l) /\ ToUpperCase(FirstToken(l)) = <<"FROM">>

OnlyCommentsAndBlanks == \A k \in 1..Len(InputLines) : ~IsContentLine(InputLines[k])

\* no line before the p-th carries a continuation marker
NoMarkerBefore(p) == \A q \in 1..(p - 1) : ~HasMarker(InputLines[q])

CountFrom(ls) == Len(SelectSeq(ls, LAMBDA ly : ly.type = <<"FROM">>))

LayersAt(ls, a, b) == SelectSeq(ls, LAMBDA ly : ly.lineNumber \in a..b)

RECURSIVE TokensOfLines(_, _, _)
TokensOfLines(ls, a, b) ==
  IF a > b THEN <<>> ELSE LineTokens(ls[a]) \o TokensOfLines(ls, a + 1, b)

JsFromCount == Len(SelectSeq(GetInstructions, LAMBDA ins : ins.directive = <<"FROM">>))

(***************************************************************************)
(* C1: when the TypeScript parse has returned and the text holds N >= 1    *)
(* FROM instructions, the result has exactly N stages and hasMultiStage is *)
(* true exactly when N > 1; in a text without continuation markers the     *)
(* FROM instructions are the FROM lines.                                   *)
(***************************************************************************)
ThmC1 ==
  pc = "done" =>
    LET n == CountFrom(tsResult.layers)
    IN /\ n >= 1 => /\ Len(tsResult.stages) = n
                    /\ tsResult.hasMultiStage <=> (n > 1)
       /\ (\A k \in 1..Len(InputLines) : ~HasMarker(InputLines[k]))
            => n = Cardinality({k \in 1..Len(InputLines) : IsFromLine(InputLines[k])})

WitC1 ==
  /\ pc = "done"
  /\ CountFrom(tsResult.layers) >= 2
  /\ tsResult.hasMultiStage
  /\ \E k \in 1..Len(tsResult.layers) :
       tsResult.layers[k].type = <<"FROM">> /\ tsResult.layers[k].arguments = <<>>

(***************************************************************************)
(* C2: once the JavaScript parser is constructed from a text with N >= 1   *)
(* FROM lines, getStages() has exactly N stages and isMultiStage() is true *)
(* exactly when N > 1.                                                     *)
(***************************************************************************)
CexC2 ==
  jsParser.constructed =>
    (JsFromCount >= 1 =>
       /\ Len(GetStages) = JsFromCount
       /\ IsMultiStage <=> (JsFromCount > 1))

ContinuationAt(p, k) ==
  /\ p + k <= Len(InputLines)
  /\ NoMarkerBefore(p)
  /\ IsContentLine(InputLines[p]) /\ IsKnownLine(InputLines[p])
  /\ EndsMarked(InputLines[p])
  /\ \A j \in 1..k : /\ IsContentLine(InputLines[p + j])
                     /\ EndsMarked(InputLines[p + j]) <=> (j < k)

ThmC4 ==
  pc = "done" =>
    \A p \in 1..Len(InputLines) : \A k \in 1..Len(InputLines) :
      ContinuationAt(p, k) =>
        LET at == LayersAt(tsResult.layers, p, p + k)
        IN /\ Len(at) = 1
           /\ at[1].lineNumber = p
           /\ at[1].type = ToUpperCase(FirstToken(InputLines[p]))
           /\ at[1].arguments = Tail(TokensOfLines(InputLines, p, p + k))

WitC4 ==
  /\ pc = "done"
  /\ \E p \in 1..Len(InputLines) : ContinuationAt(p, 2)
  /\ \E n \in 1..Len(tsResult.layers) : Len(tsResult.layers[n].arguments) >= 3

(***************************************************************************)
(* C5: in the TypeScript parse, a line of a known directive that ends with *)
(* the marker, followed by comment or blank lines and then by a content    *)
(* line without the marker, is one logical line: exactly one instruction   *)
(* is emitted for the whole sequence, carrying the tokens of the first and *)
(* of the last line.                                                       *)
(***************************************************************************)
\* line p is continued, across m skipped lines, by the content line p+m+1
SkippedGapAt(p, m) ==
  /\ p + m + 1 <= Len(InputLines)
  /\ NoMarkerBefore(p)
  /\ IsContentLine(InputLines[p]) /\ IsKnownLine(InputLines[p])
  /\ EndsMarked(InputLines[p])
  /\ \A j \in 1..m : ~IsContentLine(InputLines[p + j])
  /\ IsContentLine(InputLines[p + m + 1])
  /\ ~EndsMarked(InputLines[p + m + 1])

CexC5 ==
  pc = "done" =>
    \A p \in 1..Len(InputLines) : \A m \in 1..Len(InputLines) :
      SkippedGapAt(p, m) =>
        LET at == LayersAt(tsResult.layers, p, p + m + 1)
        IN /\ Len(at) = 1
           /\ at[1].lineNumber = p
           /\ at[1].arguments =
                Tail(LineTokens(InputLines[p]) \o LineTokens(InputLines[p + m + 1]))

(***************************************************************************)
(* C6: the TypeScript parse returns on every text and never raises an      *)
(* error; when the last physical lines are a logical line of a known       *)
(* directive whose marker is left dangling at the end of the text, that    *)
(* logical line is still emitted as an instruction.  Termination: every   *)
(* step of parse decreases a measure that is never negative, and the index *)
(* never passes the end of the text by more than one.                      *)
(***************************************************************************)
Running == pc \in {"scan", "cont"}

Measure ==
  CASE pc = "start" -> 3 * (Len(InputLines) + 3)
    [] pc \in {"done", "error"} -> 0
    [] OTHER -> 3 * (Len(lines) + 2 - i) + (IF pc = "scan" THEN 2 ELSE 1)

Progresses ==
  /\ Measure >= 0
  /\ Running => Measure > 0 /\ i <= Len(lines) + 1

Decreases == TsParseStep => Measure' < Measure

\* line p opens a logical line whose continuation reaches the end of the text
DanglingAt(p) ==
  /\ p <= Len(InputLines)
  /\ NoMarkerBefore(p)
  /\ IsContentLine(InputLines[p]) /\ IsKnownLine(InputLines[p])
  /\ \A q \in p..Len(InputLines) :
       IsContentLine(InputLines[q]) /\ EndsMarked(InputLines[q])

DanglingEmitted ==
  pc = "done" =>
    \A p \in 1..Len(InputLines) :
      DanglingAt(p) =>
        \E n \in 1..Len(tsResult.layers) :
          /\ tsResult.layers[n].lineNumber = p
          /\ tsResult.layers[n].type = ToUpperCase(FirstToken(InputLines[p]))

ThmC6 == [](Progresses /\ pc # "error" /\ DanglingEmitted) /\ [][Decreases]_vars

WitC6 ==
  /\ pc = "done"
  /\ \E p \in 1..Len(InputLines) : DanglingAt(p) /\ p < Len(InputLines)
  /\ tsResult.layers # <<>>

(***************************************************************************)
(* C7: every instruction of the TypeScript parse has a directive of the    *)
(* table of known directives, stored upper-cased; the step that completes  *)
(* a logical line whose first token is not in the table, compared without  *)
(* regard to case, adds no instruction and leaves the stage list alone.    *)
(***************************************************************************)
DirectiveOk(ly) == ly.type \in DirectiveTable /\ ly.type = ToUpperCase(ly.instruction)

AllDirectivesOk ==
  /\ \A n \in 1..Len(layers) : DirectiveOk(layers[n])
  /\ \A n \in 1..Len(tsResult.layers) : DirectiveOk(tsResult.layers[n])
  /\ \A n \in 1..Len(stages) : \A j \in 1..Len(stages[n].layers) :
       DirectiveOk(stages[n].layers[j])

UnknownDropped ==
  (pc = "cont" /\ pc' # "cont" /\ ~IsKnownLine(fullLine))
    => (layers' = layers /\ stages' = stages)

ThmC7 == []AllDirectivesOk /\ [][UnknownDropped]_vars

WitC7 ==
  /\ pc = "done"
  /\ \A k \in 1..Len(InputLines) : ~HasMarker(InputLines[k])
  /\ \E k \in 1..Len(InputLines) :
       IsContentLine(InputLines[k]) /\ ~IsKnownLine(InputLines[k])
  /\ \E n \in 1..Len(tsResult.layers) :
       tsResult.layers[n].instruction # tsResult.layers[n].type

(***************************************************************************)
(* C8: after parsing, every instruction of the global sequence is in the   *)
(* instruction list of exactly one stage, in the TypeScript result and in  *)
(* the JavaScript parser alike.                                            *)
(***************************************************************************)
CexC8 ==
  /\ pc = "done" =>
       \A n \in 1..Len(tsResult.layers) :
         Cardinality({ sj \in (1..Len(tsResult.stages)) \X (1..Len(tsResult.layers)) :
                         /\ sj[2] <= Len(tsResult.stages[sj[1]].layers)
                         /\ tsResult.stages[sj[1]].layers[sj[2]] = tsResult.layers[n] }) = 1
  /\ jsParser.constructed =>
       \A n \in 1..Len(GetInstructions) :
         Cardinality({ sj \in (1..Len(GetStages)) \X (1..Len(GetInstructions)) :
                         /\ sj[2] <= Len(GetStages[sj[1]].instructions)
                         /\ GetStages[sj[1]].instructions[sj[2]] = GetInstructions[n] }) = 1

(***************************************************************************)
(* C9: the baseImages of the TypeScript result are exactly the first       *)
(* non-flag argument tokens of the FROM instructions with the :tag suffix  *)
(* stripped, without duplicates.                                           *)
(***************************************************************************)
NonFlagArgs(ly) == SelectSeq(ly.arguments, LAMBDA t : ~StartsWithDashes(t))

ExpectedBaseImages ==
  { Split(NonFlagArgs(tsResult.layers[n])[1], ":")[1] :
      n \in { m \in 1..Len(tsResult.layers) :
                /\ tsResult.layers[m].type = <<"FROM">>
                /\ NonFlagArgs(tsResult.layers[m]) # <<>> } }

CexC9 ==
  pc = "done" =>
    /\ { tsResult.baseImages[n] : n \in 1..Len(tsResult.baseImages) } = ExpectedBaseImages
    /\ Cardinality({ tsResult.baseImages[n] : n \in 1..Len(tsResult.baseImages) })
         = Len(tsResult.baseImages)


(***************************************************************************)
(* C10: the list returned by optimize is the stable sort by severity rank  *)
(* (high 0, medium 1, low 2) of the results of the rules in declaration    *)
(* order: ranks never decrease along the list, and the suggestions of one  *)
(* severity keep the order in which the rules found them.                  *)
(***************************************************************************)
SeverityRank(sev) == CASE sev = "high" -> 0 [] sev = "medium" -> 1 [] sev = "low" -> 2

OfSeverity(arr, sev) == SelectSeq(arr, LAMBDA o : o.severity = sev)

ThmC10 ==
  optPc = "done" =>
    /\ \A a \in 1..Len(optimizations) : \A b \in a..Len(optimizations) :
         SeverityRank(optimizations[a].severity) <= SeverityRank(optimizations[b].severity)
    /\ \A sev \in {"high", "medium", "low"} :
         OfSeverity(optimizations, sev) = OfSeverity(RuleResults(tsResult), sev)
    /\ Len(optimizations) = Len(RuleResults(tsResult))

WitC10 ==
  /\ optPc = "done"
  /\ \A sev \in {"high", "medium", "low"} : OfSeverity(optimizations, sev) # <<>>
  /\ \E a \in 1..Len(optimizations) : \E b \in 1..Len(optimizations) :
       /\ a < b
       /\ optimizations[a].severity = optimizations[b].severity
       /\ optimizations[a].issue # optimizations[b].issue

(***************************************************************************)
(* Vocabulary of the properties of the JavaScript package: the Dockerfile  *)
(* as its reader sees it, line by line, and the findings of the report.    *)
(***************************************************************************)
Reported == ret.kind = "report"

CacheIssues == ret.value.cacheIssues

DockerfileLines == Split(analyzer.dockerfile, "\n")

IsRunLine(l) == Len(l) > 0 /\ l[1] = "RUN"

IsCopyLine(l) == Len(l) > 0 /\ l[1] = "COPY"

IsAddLine(l) == Len(l) > 0 /\ l[1] = "ADD"

IsStageLine(l) == Len(l) > 0 /\ l[1] = "FROM"

\* lines p < q of one stage: no FROM after p up to q
SameStage(p, q) == p < q /\ \A m \in (p + 1)..q : ~IsStageLine(DockerfileLines[m])

\* the finding of a rule with a severity cites line p
Cites(rule, sev, p) ==
  \E k \in 1..Len(CacheIssues) :
    /\ CacheIssues[k].rule = rule
    /\ CacheIssues[k].severity = sev
    /\ \E j \in 1..Len(CacheIssues[k].issues) : CacheIssues[k].issues[j].lineNum = p

HasFinding(rule) == \E k \in 1..Len(CacheIssues) : CacheIssues[k].rule = rule

(***************************************************************************)
(* C11: the cacheIssues list of the report returned by Analyzer.analyze is *)
(* ordered by non-decreasing severity rank: every high finding comes       *)
(* before every medium one and every medium one before every low one.      *)
(***************************************************************************)
CexC11 ==
  Reported =>
    \A a \in 1..Len(CacheIssues) : \A b \in a..Len(CacheIssues) :
      SeverityRank(CacheIssues[a].severity) <= SeverityRank(CacheIssues[b].severity)

(***************************************************************************)
(* C12: when a RUN whose command is `apt-get update` is immediately        *)
(* followed by a RUN that contains `apt-get install`, optimize returns a   *)
(* high-severity suggestion about update and install in separate layers.   *)
(* As stated, the suggestion cites the line numbers of both RUNs; in fact  *)
(* its line number is that of the update RUN alone, and the install RUN    *)
(* appears only as raw text in the before snippet.                         *)
(***************************************************************************)
IsUpdateOnlyRun(l) ==
  l.type = <<"RUN">> /\ l.arguments = << <<"apt-get">>, <<"update">> >>

IsAptInstallRun(l) ==
  /\ l.type = <<"RUN">>
  /\ \E k \in 1..(Len(l.arguments) - 1) :
       l.arguments[k] = <<"apt-get">> /\ l.arguments[k + 1] = <<"install">>

\* the 1-based indices k of the layers where update is split from install
SplitUpdateAt(k) ==
  /\ k \in 1..(Len(tsResult.layers) - 1)
  /\ IsUpdateOnlyRun(tsResult.layers[k])
  /\ IsAptInstallRun(tsResult.layers[k + 1])

IsSplitSuggestion(o) ==
  /\ o.severity = "high"
  /\ o.issue = <<"apt-get update and install are in separate layers">>

\* the line numbers that a suggestion cites
CitedLines(o) == {o.lineNumber}

CexC12 ==
  optPc = "done" =>
    \A k \in 1..Len(tsResult.layers) :
      SplitUpdateAt(k) =>
        \E n \in 1..Len(optimizations) :
          /\ IsSplitSuggestion(optimizations[n])
          /\ { tsResult.layers[k].lineNumber, tsResult.layers[k + 1].lineNumber }
               \subseteq CitedLines(optimizations[n])

ThmC12 ==
  optPc = "done" =>
    \A k \in 1..Len(tsResult.layers) :
      SplitUpdateAt(k) =>
        \E n \in 1..Len(optimizations) :
          /\ IsSplitSuggestion(optimizations[n])
          /\ optimizations[n].lineNumber = tsResult.layers[k].lineNumber
          /\ optimizations[n].before =
               tsResult.layers[k].raw \o <<"\n">> \o tsResult.layers[k + 1].raw

WitC12 ==
  /\ optPc = "done"
  /\ \E k \in 1..Len(tsResult.layers) :
       /\ SplitUpdateAt(k)
       /\ \E n \in 1..Len(optimizations) :
            /\ IsSplitSuggestion(optimizations[n])
            /\ optimizations[n].lineNumber = tsResult.layers[k].lineNumber
            /\ optimizations[n].lineNumber # tsResult.layers[k + 1].lineNumber

(***************************************************************************)
(* C13: when `COPY . .` comes earlier in a stage than a COPY of            *)
(* package.json, the report has a high-severity copy-order finding that    *)
(* cites the source line number of an earlier `COPY . .` of that stage.    *)
(***************************************************************************)
FullTreeCopy == <<"COPY", " ", ".", " ", ".">>

IsPackageJsonCopy(l) == IsCopyLine(l) /\ HasSym(l, {"package.json"})

CexC13 ==
  Reported =>
    \A q \in 1..Len(DockerfileLines) :
      ( /\ IsPackageJsonCopy(DockerfileLines[q])
        /\ \E p \in 1..q : SameStage(p, q) /\ DockerfileLines[p] = FullTreeCopy )
      => \E p \in 1..q :
           /\ SameStage(p, q)
           /\ DockerfileLines[p] = FullTreeCopy
           /\ Cites("copy-order", "high", p)

(***************************************************************************)
(* C14: an ADD instruction is cited by the low-severity prefer-COPY        *)
(* finding exactly when its argument contains no URL and no archive        *)
(* extension.                                                              *)
(***************************************************************************)
\* the words of the alphabet that are a URL, and those with an archive extension
UrlWords == {"https://example.com/x.tar.gz"}

ArchiveWords == {"https://example.com/x.tar.gz"}

CexC14 ==
  Reported =>
    \A p \in 1..Len(DockerfileLines) :
      IsAddLine(DockerfileLines[p]) =>
        ( Cites("add-vs-copy", "low", p)
          <=> ( /\ ~HasSym(DockerfileLines[p], UrlWords)
                /\ ~HasSym(DockerfileLines[p], ArchiveWords) ) )

(***************************************************************************)
(* C15: the report that analyze returns after parse(T) is the report that  *)
(* a fresh Analyzer gives for T and the same options, whatever the         *)
(* instance parsed and analyzed before and whether or not                  *)
(* analyzeFromHistory was called on it.                                    *)
(***************************************************************************)
FreshReport(text, options) ==
  Analyze([ NewAnalyzer EXCEPT !.dockerfile = text,
                               !.parser = NewDockerfileParser(text) ], options)

ThmC15 == Reported => ret.value = FreshReport(analyzer.dockerfile, ret.options)

WitC15 ==
  /\ Reported
  /\ analyzer.layers # <<>>
  /\ Len(DockerfileLines) = MaxAppLines
  /\ ret.value.summary.totalInstructions = MaxAppLines
  /\ ret.value.summary.issues.high > 0

(***************************************************************************)
(* C16: main exits with 2 exactly when the analysis completed and the      *)
(* report has a high-severity finding, with 1 exactly when it printed an   *)
(* error (no path, invalid format, file not found, load failure), and with *)
(* 0 otherwise; a failure never gives 2 and a completed analysis never     *)
(* gives 1.                                                                *)
(***************************************************************************)
HasHighFinding(results) ==
  \E k \in 1..Len(results.cacheIssues) : results.cacheIssues[k].severity = "high"

CliErrors ==
  { <<"Error: Dockerfile path required">>,
    <<"Error: Invalid format. Use \"json\" or \"text\"">>,
    <<"Error: File not found: ", "Dockerfile">>,
    <<"Error: Failed to load Dockerfile: ">> }

ThmC16 ==
  cli.ran =>
    /\ cli.exit \in {0, 1, 2}
    /\ cli.exit = 2 <=> (cli.completed /\ HasHighFinding(cli.printed.results))
    /\ cli.exit = 1 <=> cli.error \in CliErrors
    /\ cli.error # Empty => cli.error \in CliErrors /\ ~cli.completed
    /\ cli.completed =>
         /\ cli.file.exists /\ cli.file.readable
         /\ cli.printed.results.cacheIssues = FreshReport(cli.file.content,
                                                 [ estimateSizes |-> FALSE ]).cacheIssues
    /\ (~cli.file.exists \/ ~cli.file.readable) =>
         cli.exit = 1 \/ (cli.exit = 0 /\ cli.usage)

WitC16 ==
  /\ cli.ran
  /\ cli.exit = 2
  /\ cli.completed
  /\ HasHighFinding(cli.printed.results)

(***************************************************************************)
(* C17: for each value S of --severity among high, medium and low, the     *)
(* optimizations that printTextOutput lists are exactly those whose        *)
(* severity rank is at most the rank of S.                                 *)
(***************************************************************************)
CexC17 ==
  tsCli.printed =>
    tsCli.filtered =
      SelectSeq(optimizations,
                LAMBDA o : SeverityRank(o.severity) <= SeverityRank(tsCli.severity))

(***************************************************************************)
(* C18: the report has the high-severity combine-installs finding exactly  *)
(* when two RUN lines of one stage each contain an install command of the  *)
(* same package manager.                                                   *)
(***************************************************************************)
InstallCommands ==
  { <<"apt-get", " ", "install">>, <<"yum", " ", "install">>, <<"apk", " ", "add">>,
    <<"npm", " ", "install">>, <<"pip", " ", "install">> }

InstallsWith(l, command) == IsRunLine(l) /\ Includes(l, command)

CexC18 ==
  Reported =>
    ( ( \E k \in 1..Len(CacheIssues) :
          /\ CacheIssues[k].rule = "package-install-combined"
          /\ CacheIssues[k].severity = "high" )
      <=> ( \E p \in 1..Len(DockerfileLines) : \E q \in 1..Len(DockerfileLines) :
              \E command \in InstallCommands :
                /\ SameStage(p, q)
                /\ InstallsWith(DockerfileLines[p], command)
                /\ InstallsWith(DockerfileLines[q], command) ) )

(***************************************************************************)
(* C19: a RUN line is cited by the medium-severity missing-cleanup finding *)
(* exactly when it contains an install command and none of the cleanup     *)
(* markers.                                                                *)
(***************************************************************************)
CleanupMarkers ==
  { <<"rm", " ", "-rf">>, <<"apt-get", " ", "clean">>, <<"yum", " ", "clean", " ", "all">>,
    <<"cache", " ", "clean">>, <<"--no-cache-dir">> }

CexC19 ==
  Reported =>
    \A p \in 1..Len(DockerfileLines) :
      Cites("run-cleaned", "medium", p)
      <=> ( /\ \E command \in InstallCommands : InstallsWith(DockerfileLines[p], command)
            /\ \A marker \in CleanupMarkers : ~Includes(DockerfileLines[p], marker) )

(***************************************************************************)
(* C20: the layer-order finding cites a line only if it is a RUN that      *)
(* contains `apt-get update` with no `apt-get install` in it or in the RUN *)
(* right after it; a Dockerfile without `apt-get update` has no            *)
(* layer-order finding.                                                    *)
(***************************************************************************)
UnpairedUpdate(p) ==
  /\ IsRunLine(DockerfileLines[p])
  /\ Includes(DockerfileLines[p], <<"apt-get", " ", "update">>)
  /\ ~Includes(DockerfileLines[p], <<"apt-get", " ", "install">>)
  /\ ~( /\ p < Len(DockerfileLines)
        /\ InstallsWith(DockerfileLines[p + 1], <<"apt-get", " ", "install">>) )

CexC20 ==
  Reported =>
    /\ \A p \in 1..Len(DockerfileLines) :
         Cites("layer-order", "medium", p) => UnpairedUpdate(p)
    /\ ( \A p \in 1..Len(DockerfileLines) :
           ~Includes(DockerfileLines[p], <<"apt-get", " ", "update">>) )
       => ~HasFinding("layer-order")

(***************************************************************************)
(* C21: the report carries a dockerignore reminder if and only if the      *)
(* Dockerfile has a COPY or an ADD whose source is the whole build context *)
(* (`COPY . .`, `ADD . /app`); a Dockerfile without one has no reminder.   *)
(***************************************************************************)
CopiesWholeContext(l) ==
  (IsCopyLine(l) \/ IsAddLine(l)) /\ Len(l) >= 3 /\ l[2] = " " /\ l[3] = "."

CexC21 ==
  Reported =>
    ( HasFinding("dockerignore")
        <=> \E p \in 1..Len(DockerfileLines) : CopiesWholeContext(DockerfileLines[p]) )

(***************************************************************************)
(* C22: optimize returns exactly one low-severity split suggestion for     *)
(* every RUN whose command has more than 3 steps chained with `&&`, and    *)
(* none for a RUN of 3 or fewer steps.  As stated, this is so whatever the *)
(* steps are; in fact the RUN gets its suggestion exactly if, in addition, *)
(* some step contains `install` or `download`.                             *)
(***************************************************************************)
\* the number of steps of a RUN layer: one more than its `&&` words
StepCount(l) == 1 + Len(SelectSeq(l.arguments, LAMBDA t : t = <<"&&">>))

HasInstallOrDownloadStep(l) ==
  \E k \in 1..Len(l.arguments) : HasSym(l.arguments[k], {"install", "download"})

\* the split suggestions of the returned list that cite the layer
SplitSuggestionsFor(l) ==
  SelectSeq(optimizations,
            LAMBDA o : /\ o.issue = <<"Many operations in a single RUN command">>
                       /\ o.severity = "low"
                       /\ o.lineNumber = l.lineNumber)

CexC22 ==
  optPc = "done" =>
    \A k \in 1..Len(tsResult.layers) :
      tsResult.layers[k].type = <<"RUN">> =>
        Len(SplitSuggestionsFor(tsResult.layers[k])) =
          (IF StepCount(tsResult.layers[k]) > 3 THEN 1 ELSE 0)

ThmC22 ==
  optPc = "done" =>
    /\ \A k \in 1..Len(tsResult.layers) :
         tsResult.layers[k].type = <<"RUN">> =>
           Len(SplitSuggestionsFor(tsResult.layers[k])) =
             (IF /\ StepCount(tsResult.layers[k]) > 3
                 /\ HasInstallOrDownloadStep(tsResult.layers[k])
              THEN 1 ELSE 0)
    /\ \A n \in 1..Len(optimizations) :
         optimizations[n].issue = <<"Many operations in a single RUN command">> =>
           \E k \in 1..Len(tsResult.layers) :
             /\ tsResult.layers[k].type = <<"RUN">>
             /\ tsResult.layers[k].lineNumber = optimizations[n].lineNumber

\* one returned list with a suggested RUN of 4 steps, a RUN of 4 steps with
\* no install and no download, and a RUN of 3 steps with an install
WitC22 ==
  /\ optPc = "done"
  /\ \E a \in 1..Len(tsResult.layers) : \E b \in 1..Len(tsResult.layers) :
       \E c \in 1..Len(tsResult.layers) :
         /\ tsResult.layers[a].type = <<"RUN">>
         /\ StepCount(tsResult.layers[a]) > 3
         /\ Len(SplitSuggestionsFor(tsResult.layers[a])) = 1
         /\ tsResult.layers[b].type = <<"RUN">>
         /\ StepCount(tsResult.layers[b]) > 3
         /\ ~HasInstallOrDownloadStep(tsResult.layers[b])
         /\ Len(SplitSuggestionsFor(tsResult.layers[b])) = 0
         /\ tsResult.layers[c].type = <<"RUN">>
         /\ StepCount(tsResult.layers[c]) = 3
         /\ HasInstallOrDownloadStep(tsResult.layers[c])
         /\ Len(SplitSuggestionsFor(tsResult.layers[c])) = 0

(***************************************************************************)
(* C23: optimize returns one combine-COPYs suggestion for every maximal    *)
(* run of two or more directly consecutive COPY instructions, a run that   *)
(* ends the file included, and no other: COPY instructions separated by    *)
(* another instruction are never counted together.                         *)
(***************************************************************************)
\* layers a..b are a maximal run of at least two consecutive COPYs
MaximalCopyRun(a, b) ==
  /\ a < b
  /\ \A k \in a..b : tsResult.layers[k].type = <<"COPY">>
  /\ a > 1 => tsResult.layers[a - 1].type # <<"COPY">>
  /\ b < Len(tsResult.layers) => tsResult.layers[b + 1].type # <<"COPY">>

CombineSuggestions ==
  SelectSeq(optimizations, LAMBDA o : o.before = <<"[multiple COPY lines]">>)

CexC23 ==
  optPc = "done" =>
    /\ \A n \in 1..Len(CombineSuggestions) : CombineSuggestions[n].severity = "low"
    /\ Len(CombineSuggestions) =
         Cardinality({ r \in (1..Len(tsResult.layers)) \X (1..Len(tsResult.layers)) :
                         MaximalCopyRun(r[1], r[2]) })

(***************************************************************************)
(* C24: in every report of Analyzer.analyze, summary.totalInstructions is  *)
(* the number of parsed instructions, summary.stages the number of stages, *)
(* summary.isMultiStage holds iff summary.stages > 1, each of              *)
(* summary.issues.high, medium and low is the number of cacheIssues of     *)
(* that severity, and the three counts add up to the length of cacheIssues.*)
(***************************************************************************)
Summary == ret.value.summary

\* the positions of the findings of one severity in the report
FindingsOf(sev) == { k \in 1..Len(CacheIssues) : CacheIssues[k].severity = sev }

ThmC24 ==
  Reported =>
    /\ Summary.totalInstructions = Len(analyzer.parser.instructions)
    /\ Summary.stages = Len(analyzer.parser.stages)
    /\ Summary.isMultiStage <=> Summary.stages > 1
    /\ Summary.issues.high = Cardinality(FindingsOf("high"))
    /\ Summary.issues.medium = Cardinality(FindingsOf("medium"))
    /\ Summary.issues.low = Cardinality(FindingsOf("low"))
    /\ Summary.issues.high + Summary.issues.medium + Summary.issues.low = Len(CacheIssues)

\* a report with findings of all three severities in unequal numbers
WitC24 ==
  /\ Reported
  /\ Summary.totalInstructions = 3
  /\ Summary.issues.high >= 1
  /\ Summary.issues.medium >= 1
  /\ Summary.issues.low >= 2
  /\ Summary.issues.low # Summary.issues.high

(***************************************************************************)
(* C25: in the instruction sequence returned by either parser, every line  *)
(* number is the 1-based index of the physical line on which the           *)
(* instruction starts, and the line numbers strictly increase along the    *)
(* sequence, also when comments, blank lines, dropped unknown lines and    *)
(* continuations lie in between.                                           *)
(***************************************************************************)
\* the instruction of the TypeScript result starts on physical line n
TsStartsOn(ly, n) ==
  /\ n \in 1..Len(InputLines)
  /\ IsContentLine(InputLines[n])
  /\ ly.instruction = FirstToken(InputLines[n])

\* the instruction of the JavaScript parser is physical line n
JsStartsOn(ins, n) ==
  /\ n \in 1..Len(InputLines)
  /\ ins.raw = Trim(InputLines[n])

ThmC25 ==
  /\ pc = "done" =>
       /\ \A k \in 1..Len(tsResult.layers) :
            TsStartsOn(tsResult.layers[k], tsResult.layers[k].lineNumber)
       /\ \A k \in 1..(Len(tsResult.layers) - 1) :
            tsResult.layers[k].lineNumber < tsResult.layers[k + 1].lineNumber
  /\ jsParser.constructed =>
       /\ \A k \in 1..Len(GetInstructions) :
            JsStartsOn(GetInstructions[k], GetInstructions[k].lineNum)
       /\ \A k \in 1..(Len(GetInstructions) - 1) :
            GetInstructions[k].lineNum < GetInstructions[k + 1].lineNum

\* both parsers have returned, the TypeScript one with an instruction that
\* is continued over a physical line and followed by another instruction
WitC25 ==
  /\ pc = "done"
  /\ jsParser.constructed
  /\ Len(GetInstructions) >= 2
  /\ \E k \in 1..(Len(tsResult.layers) - 1) :
       /\ EndsMarked(InputLines[tsResult.layers[k].lineNumber])
       /\ tsResult.layers[k + 1].lineNumber > tsResult.layers[k].lineNumber + 1

(***************************************************************************)
(* C26: when the read of the input file fails, Analyzer.load throws an     *)
(* error whose message starts with `Failed to load Dockerfile:`, which is  *)
(* not the not-loaded error, and the parser and dockerfile fields of the   *)
(* instance are what they were before the call; an instance that was not   *)
(* loaded is still not loaded.                                             *)
(***************************************************************************)
NotLoadedError == <<"Dockerfile not loaded. Call load() or parse() first.">>

LoadFailurePrefix == <<"Failed to load Dockerfile: ">>

\* the step is a call of load whose read failed
ReadFails == ret'.readFile = "rejected"

ThmC26 ==
  [][ ReadFails =>
        /\ ret'.kind = "throw"
        /\ StartsWith(ret'.value, LoadFailurePrefix)
        /\ ret'.value # NotLoadedError
        /\ analyzer'.parser = analyzer.parser
        /\ analyzer'.dockerfile = analyzer.dockerfile
        /\ ~analyzer.parser.constructed => ~analyzer'.parser.constructed ]_vars

\* a load has failed on an instance that has a path and had a Dockerfile
\* parsed before, and the instance still holds that Dockerfile
WitC26 ==
  /\ ret.readFile = "rejected"
  /\ ret.kind = "throw"
  /\ analyzer.dockerfilePath # Undefined
  /\ analyzer.parser.constructed
  /\ Len(analyzer.parser.instructions) > 0
  /\ analyzer.dockerfile = analyzer.parser.content

(***************************************************************************)
(* C27: after any sequence of parseHistoryOutput calls, the layers list    *)
(* holds exactly the lines of the most recent output that have at least    *)
(* three pipe-delimited fields, in their order, and nothing of earlier     *)
(* calls; getTotalSize is the sum of their sizes; an empty output gives    *)
(* no layer and a total of 0.                                              *)
(***************************************************************************)
\* the lines of the most recent output that have three fields or more
HistoryLines ==
  SelectSeq(Split(ret.historyOutput, "\n"),
            LAMBDA l : Len(SelectSeq(l, LAMBDA c : c = "|")) >= 2)

\* the first field of a line
FirstField(l) == SubSeq(l, 1, CHOOSE n \in 0..Len(l) :
                               /\ n < Len(l) /\ l[n + 1] = "|"
                               /\ \A m \in 1..n : l[m] # "|")

\* the sum of the sizes of the first n layers
RECURSIVE SizesUpTo(_)
SizesUpTo(n) == IF n = 0 THEN 0 ELSE SizesUpTo(n - 1) + analyzer.layers[n].size

ThmC27 ==
  ret.kind = "history" =>
    /\ Len(analyzer.layers) = Len(HistoryLines)
    /\ \A k \in 1..Len(HistoryLines) : analyzer.layers[k].id = FirstField(HistoryLines[k])
    /\ ret.value.totalLayers = Len(HistoryLines)
    /\ ret.value.totalSize = SizesUpTo(Len(analyzer.layers))
    /\ ret.historyOutput = <<>> => analyzer.layers = <<>> /\ ret.value.totalSize = 0

\* the most recent output has a line of two fields before a line of four
\* fields, whose layer is the only one and has a size
WitC27 ==
  /\ ret.kind = "history"
  /\ Len(Split(ret.historyOutput, "\n")) = 2
  /\ Len(HistoryLines) = 1
  /\ Len(analyzer.layers) = 1
  /\ analyzer.layers[1].id = <<"b">>
  /\ ret.value.totalSize = 1024

(***************************************************************************)
(* C28: a JavaScript DockerfileParser keeps no state between parse calls:  *)
(* calling parse() again on a constructed instance leaves getInstructions()*)
(* and getStages() as they were after construction.                        *)
(***************************************************************************)
\* the step is a call of parse() on an instance that is already constructed
ParsesAgain == jsParser.constructed /\ jsParser'.constructed

CexC28 ==
  [][ ParsesAgain =>
        /\ jsParser'.instructions = jsParser.instructions
        /\ jsParser'.stages = jsParser.stages ]_vars

(***************************************************************************)
(* C29: over any sequence of Analyzer operations, analyze() and            *)
(* generateSuggestions() throw the not-loaded error if and only if neither *)
(* parse() nor a successful load() has been performed on the instance yet; *)
(* no later operation, a failed load and analyzeFromHistory included,      *)
(* makes a loaded instance unloaded, and analyzeFromHistory works on an    *)
(* instance that is not loaded.                                            *)
(***************************************************************************)
\* the instance has a parser
IsLoaded == analyzer.parser.constructed

\* the step is a parse() or a load() that has succeeded
LoadsNow == ret'.kind = "this" \/ ret'.readFile = "resolved"

\* what analyze() or generateSuggestions() has just answered
Answered == ret.kind \in {"report", "suggestions"}

ThrewNotLoaded == ret.kind = "throw" /\ ret.value = NotLoadedError

ThmC29 ==
  /\ [](ret.kind = "none" => ~IsLoaded)
  /\ [](Answered => IsLoaded)
  /\ [](ThrewNotLoaded => ~IsLoaded)
  /\ [][LoadsNow => IsLoaded']_vars
  /\ [][IsLoaded => IsLoaded']_vars
  /\ [][~IsLoaded /\ IsLoaded' => LoadsNow]_vars
  /\ [][ret'.kind = "history" => (IsLoaded' <=> IsLoaded)]_vars

\* analyzeFromHistory has answered, with layers, on an instance that was
\* never loaded
WitC29 ==
  /\ ret.kind = "history"
  /\ ret.value.totalLayers > 0
  /\ ~IsLoaded
  /\ analyzer.dockerfile = Null

(***************************************************************************)
(* C30: optimize returns the medium-severity ENV suggestion for an ENV     *)
(* instruction only if some RUN instruction after that ENV refers to a     *)
(* variable (its arguments contain `$`); an ENV followed only by other     *)
(* instructions, or by RUNs without `$`, gets no suggestion.               *)
(***************************************************************************)
IsEnvSuggestion(o) ==
  /\ o.severity = "medium"
  /\ o.issue = <<"ENV instruction may be overridden by subsequent RUN commands">>

\* a RUN layer whose arguments contain `$`
IsRunWithVariable(l) ==
  /\ l.type = <<"RUN">>
  /\ \E k \in 1..Len(l.arguments) : HasSym(l.arguments[k], {"$v", "${v}"})

CexC30 ==
  optPc = "done" =>
    \A k \in 1..Len(tsResult.layers) :
      ( /\ tsResult.layers[k].type = <<"ENV">>
        /\ \E n \in 1..Len(optimizations) :
             /\ IsEnvSuggestion(optimizations[n])
             /\ optimizations[n].lineNumber = tsResult.layers[k].lineNumber )
      => \E m \in (k + 1)..Len(tsResult.layers) : IsRunWithVariable(tsResult.layers[m])

====
